---- MODULE Spec2Model ----
(***************************************************************************)
(* Coordinator registry and command relay (apple-dashboard-fixed.py) with  *)
(* the node agent endpoint the relay talks to, the agent's configuration   *)
(* endpoint and heartbeat loop (example-client_app.py), and the event      *)
(* detection and the read loop of the serial logger                        *)
(* (esp32_monitor_logger.py).                                              *)
(*                                                                         *)
(* JSON objects are functions from field names to values; a field that is  *)
(* absent from a body is absent from the function's domain.  Python's None *)
(* (JSON null) is the value None.  Time is counted in whole time units.    *)
(***************************************************************************)
EXTENDS Integers, Sequences, FiniteSets, TLC

\* ------------------------------------------------------------------ bounds
MaxHeartbeats == 2      \* heartbeat requests the coordinator receives
MaxTime == 5            \* last tick of the coordinator clock
MaxConnectDelay == 1    \* longest time a TCP connect takes when it succeeds
MaxCommands == 3        \* LED commands the agent's device endpoint carries out
MaxLines == 2           \* lines of serial output the logger processes
MaxBytes == 5           \* bytes the serial port delivers to the logger

\* ------------------------------------------------------- program constants
RELAY_TIMEOUT == 5      \* requests.post(..., timeout=5) in toggle_led
SLEEP_MAX == 1000       \* longest time.sleep(secs) that does not raise: CPython
                        \* accepts up to 9223372036 s, scaled to the model's range

\* --------------------------------------------------------------- universe
None == "<None>"

Identities == {"n1", "n2"}

Relays == {"r1"}

\* address each node agent resolved for itself (NODE_IP)
NODE_IP == [n1 |-> "192.168.4.11", n2 |-> "192.168.4.12"]

\* device_manager.devices of each agent: n1 has its GPIO devices, n2 runs in
\* simulation mode (GPIO_AVAILABLE = False, init_devices returns at once)
DeviceNames == [n1 |-> <<"led_1", "led_2", "button_1", "pwm_1">>, n2 |-> <<>>]

IsLedName(name) == name \in {"led_1", "led_2"}

LedDevices(a) == SelectSeq(DeviceNames[a], IsLedName)

LedAgents == {a \in Identities : LedDevices(a) # <<>>}

Timestamps == {"t1", "t2"}

\* the node-side order of the timestamps a heartbeat carries
TsOrder(ts) == IF ts = "t1" THEN 1 ELSE IF ts = "t2" THEN 2 ELSE 0

\* sensor_data map of the agent at the time of the snapshot
SensorSnapshot(a, ts) ==
    IF LedDevices(a) = <<>> THEN <<>>
    ELSE << <<"button_1", IF ts = "t1" THEN "released" ELSE "pressed", ts>> >>

\* ----------------------------------------------------------- dict helpers
Get(d, k, default) == IF k \in DOMAIN d THEN d[k] ELSE default

\* Python truthiness of a string-or-None value
Truthy(v) == v # None /\ v # ""

\* --------------------------------------------------------- heartbeat body
\* the body send_heartbeat assembles
HeartbeatData(a, ts) ==
    [node |-> a, ip |-> NODE_IP[a], timestamp |-> ts, status |-> "online",
     devices |-> DeviceNames[a], sensor_data |-> SensorSnapshot(a, ts),
     system_info |-> <<"hostname", a, ts>>]

\* bodies other clients of POST /api/heartbeat can send
PartialBodies ==
    { [node |-> "n1"],
      [node |-> "n1", ip |-> "", status |-> "online"],
      [node |-> "n2", ip |-> None, timestamp |-> "t2"],
      [node |-> "", ip |-> NODE_IP["n2"], status |-> "online"] }

HeartbeatBodies ==
    {HeartbeatData("n1", ts) : ts \in Timestamps}
        \cup {HeartbeatData("n2", "t1")} \cup PartialBodies

VARIABLES
    connected_clients,  \* identity -> stored descriptor
    last_heartbeat,     \* identity -> coordinator time of the last heartbeat
    now,                \* coordinator clock (datetime.now())
    arrived,            \* request log: heartbeat bodies in arrival order
    relay,              \* toggle_led calls: position, locals and response
    is_lit,             \* agent -> output level of its primary LED
    last_led_state,     \* agent -> DeviceManager.last_led_state[primary]
    led_timers,         \* agent -> TRUE iff led_timers holds the primary LED
    hb_response,        \* response of receive_heartbeat on its way to the client
    query,              \* get_status / list_nodes call: position and response
    system_config,      \* agent: the tunables PUT config updates
    timers,             \* agent: the threading.Timer objects created so far
    led_timer,          \* agent: index of the Timer led_timers holds, 0 if none
    thread,             \* agent: the request thread inside control_device
    issued,             \* agent: LED commands carried out for requests, in order
    cfg_response,       \* agent: response of update_config on its way to the client
    beat,               \* agent: the heartbeat thread's position in its loop
    loop,               \* agent -> its heartbeat thread, push by push
    raw_log,            \* serial logger: the raw log file, one entry per line
    events_log,         \* serial logger: the rows of the events CSV
    failover_log,       \* serial logger: the entries of the failover log
    records,            \* serial logger: every event_data built, in order
    buffer,             \* serial logger: monitor_loop's text without a newline yet
    received            \* serial port: the bytes read so far, in order

apiVars == <<hb_response, query>>

deviceVars == <<system_config, timers, led_timer, thread, issued>>

vars == <<connected_clients, last_heartbeat, now, arrived, relay,
          is_lit, last_led_state, led_timers, hb_response, query,
          system_config, timers, led_timer, thread, issued,
          cfg_response, beat, loop, raw_log, events_log, failover_log, records,
          buffer, received>>

configVars == <<cfg_response, beat, loop>>

loggerVars == <<raw_log, events_log, failover_log, records, buffer, received>>

agentVars == <<is_lit, last_led_state, led_timers>>

\* ------------------------------------------------------ receive_heartbeat
\* variant: the sensor snapshot of the body is not copied into the entry
Descriptor_noSensor(data) ==
    [ip |-> Get(data, "ip", None),
     status |-> Get(data, "status", None),
     timestamp |-> Get(data, "timestamp", None),
     devices |-> Get(data, "devices", <<>>),
     sensor_data |-> <<>>]

\* the dict literal receive_heartbeat stores
Descriptor(data) ==
    [ip |-> Get(data, "ip", None),
     status |-> Get(data, "status", None),
     timestamp |-> Get(data, "timestamp", None),
     devices |-> Get(data, "devices", <<>>),
     sensor_data |-> Get(data, "sensor_data", <<>>)]

\* variant: dict.update style merge, fields absent from the body keep the
\* value of the previous entry
StoreHeartbeat_merge(clients, node_name, data) ==
    IF node_name \in DOMAIN clients
    THEN (node_name :> [f \in DOMAIN clients[node_name] |->
                           IF f \in DOMAIN data THEN data[f]
                           ELSE clients[node_name][f]]) @@ clients
    ELSE (node_name :> Descriptor(data)) @@ clients

\* variant: the registry is rebound to a dict holding only the new entry
StoreHeartbeat_rebind(clients, node_name, data) ==
    (node_name :> Descriptor(data))

\* connected_clients[node_name] = {...}: the entry is replaced as a whole
StoreHeartbeat(clients, node_name, data) ==
    (node_name :> Descriptor(data)) @@ clients

\* variant: the time is recorded at the first heartbeat only
Touch_firstOnly(last, node_name, t) ==
    IF node_name \in DOMAIN last THEN last ELSE (node_name :> t) @@ last

\* variant: a heartbeat refreshes the time of every registered identity
Touch_all(last, node_name, t) ==
    [n \in DOMAIN last \cup {node_name} |-> t]

\* last_heartbeat[node_name] = datetime.now()
Touch(last, node_name, t) == (node_name :> t) @@ last

\* the body of the try block for a request body that is a JSON object
Ingest(data) ==
    /\ LET node_name == Get(data, "node", None)
       IN  IF Truthy(node_name)
           THEN /\ connected_clients' =
                       StoreHeartbeat(connected_clients, node_name, data)
                /\ last_heartbeat' = Touch(last_heartbeat, node_name, now)
           ELSE UNCHANGED <<connected_clients, last_heartbeat>>
    /\ arrived' = Append(arrived, data)

\* variant: a server with one thread, a request waits until the open relay
\* call has returned
ReceiveHeartbeat_serial(data) ==
    /\ \A r \in DOMAIN relay : relay[r].pc \notin {"connecting", "reading"}
    /\ Len(arrived) < MaxHeartbeats
    /\ Ingest(data)
    /\ UNCHANGED <<now, relay, agentVars, apiVars, deviceVars,
                   configVars, loggerVars>>

\* POST /api/heartbeat with a parsed JSON object as body
ReceiveHeartbeat(data) ==
    /\ Len(arrived) < MaxHeartbeats
    /\ Ingest(data)
    /\ UNCHANGED <<now, relay, agentVars, apiVars, deviceVars,
                   configVars, loggerVars>>

\* ------------------------------------------------- node agent: LED control
\* DeviceManager.control_led(led_name, "toggle"); fault: the GPIO call raises
control_led(a, fault) ==
    IF fault
    THEN [success |-> FALSE, message |-> "<exception text>"]
    ELSE IF is_lit[a]
         THEN [success |-> TRUE, state |-> "off", message |-> "LED toggled off"]
         ELSE [success |-> TRUE, state |-> "on", message |-> "LED toggled on"]

\* control_primary_led: HTTP status and JSON body the agent answers with
control_primary_led(a, fault) ==
    IF LedDevices(a) = <<>>
    THEN [status_code |-> 404,
          json |-> [success |-> FALSE, message |-> "No LED devices available"]]
    ELSE [status_code |-> 200,
          json |-> [device |-> Head(LedDevices(a))] @@ control_led(a, fault)]

\* ------------------------------------------------------------- toggle_led
NoJson == [none |-> TRUE]

IdleRelay ==
    [pc |-> "idle", node_name |-> "", node_ip |-> "", at |-> 0,
     timer |-> 0, total |-> 0, transport |-> "none", outbound |-> 0,
     reply |-> [status_code |-> 0, json |-> NoJson],
     status |-> 0, body |-> NoJson]

\* node_info.get("ip", "")
NodeIp(clients, node_name) == Get(clients[node_name], "ip", "")

\* variant: the membership test is missing
PreCheck_noMembership(clients, node_name) ==
    IF node_name \in DOMAIN clients /\ ~Truthy(NodeIp(clients, node_name))
    THEN "NoAddress"
    ELSE "Send"

\* variant: the address test is missing
PreCheck_noAddress(clients, node_name) ==
    IF node_name \notin DOMAIN clients THEN "NodeUnknown" ELSE "Send"

\* the two checks before the request is sent
PreCheck(clients, node_name) ==
    IF node_name \notin DOMAIN clients THEN "NodeUnknown"
    ELSE IF ~Truthy(NodeIp(clients, node_name)) THEN "NoAddress"
    ELSE "Send"

\* variant: the timeout is one unit short
TimedOut_early(elapsed) == elapsed >= RELAY_TIMEOUT - 1

\* requests' timeout: the phase (connect, then read) has lasted the bound
TimedOut(elapsed) == elapsed >= RELAY_TIMEOUT

\* classes of requests.exceptions an exception is an instance of
ExceptionBases(exc) ==
    CASE exc = "ConnectTimeout" ->
            {"ConnectTimeout", "ConnectionError", "Timeout", "Exception"}
      [] exc = "ReadTimeout" -> {"ReadTimeout", "Timeout", "Exception"}
      [] exc = "ConnectionError" -> {"ConnectionError", "Exception"}
      [] OTHER -> {exc, "Exception"}

\* what requests.post raises for a transport event
Raised(event) ==
    CASE event \in {"ECONNREFUSED", "EHOSTUNREACH", "ENETUNREACH"} ->
            "ConnectionError"
      [] event = "connect_timeout" -> "ConnectTimeout"
      [] event = "read_timeout" -> "ReadTimeout"
      [] event = "connection_reset" -> "ConnectionError"
      [] event = "chunked_encoding" -> "ChunkedEncodingError"
      [] event = "invalid_json" -> "JSONDecodeError"
      [] OTHER -> "AttributeError"

\* variant: the ConnectionError clause is missing
ExceptResponse_noConnectionError(exc) ==
    IF "Timeout" \in ExceptionBases(exc)
    THEN [status |-> 408,
          body |-> [success |-> FALSE, message |-> "Timeout connecting to"]]
    ELSE [status |-> 500,
          body |-> [success |-> FALSE, message |-> "Error: " \o exc]]

\* variant: the catch-all clause is missing, the exception leaves the handler
\* and Flask answers with its own error page
ExceptResponse_noCatchAll(exc) ==
    IF "Timeout" \in ExceptionBases(exc)
    THEN [status |-> 408,
          body |-> [success |-> FALSE, message |-> "Timeout connecting to"]]
    ELSE IF "ConnectionError" \in ExceptionBases(exc)
    THEN [status |-> 503,
          body |-> [success |-> FALSE, message |-> "Cannot connect to"]]
    ELSE [status |-> 500, body |-> NoJson]

\* the except clauses of toggle_led, first match wins
ExceptResponse(exc) ==
    IF "Timeout" \in ExceptionBases(exc)
    THEN [status |-> 408,
          body |-> [success |-> FALSE, message |-> "Timeout connecting to"]]
    ELSE IF "ConnectionError" \in ExceptionBases(exc)
    THEN [status |-> 503,
          body |-> [success |-> FALSE, message |-> "Cannot connect to"]]
    ELSE [status |-> 500,
          body |-> [success |-> FALSE, message |-> "Error: " \o exc]]

\* the branch on response.status_code
RelayResponse(reply, node_name, t) ==
    IF reply.status_code = 200
    THEN [status |-> 200,
          body |-> [success |-> TRUE,
                    state |-> Get(reply.json, "state", "unknown"),
                    node |-> node_name, timestamp |-> t]]
    ELSE [status |-> reply.status_code,
          body |-> [success |-> FALSE,
                    message |-> "Node responded with status"]]

\* what can go wrong once the connection is established
ReadFaults ==
    {"connection_reset", "chunked_encoding", "invalid_json", "not_an_object"}

InFlight(r) == relay[r].pc \in {"connecting", "reading"}

\* variant: a request that timed out is sent a second time
Finish_retry(r, event, resp) ==
    IF event \in {"connect_timeout", "read_timeout"} /\ relay[r].outbound < 2
    THEN relay' = [relay EXCEPT ![r].pc = "connecting", ![r].timer = 0,
                                ![r].outbound = @ + 1]
    ELSE relay' = [relay EXCEPT ![r].pc = "done", ![r].transport = event,
                                ![r].status = resp.status,
                                ![r].body = resp.body]

\* the handler returns from an except clause
Finish(r, event, resp) ==
    relay' = [relay EXCEPT ![r].pc = "done", ![r].transport = event,
                           ![r].status = resp.status, ![r].body = resp.body]

\* POST /api/led/<node_name>/toggle up to the moment the request is sent
ToggleStart(r, node_name) ==
    /\ relay[r].pc = "idle"
    /\ LET check == PreCheck(connected_clients, node_name)
           called == [relay[r] EXCEPT !.node_name = node_name,
                                      !.at = Len(arrived)]
       IN  CASE check = "NodeUnknown" ->
                  relay' = [relay EXCEPT ![r] =
                      [called EXCEPT !.pc = "done", !.status = 404,
                          !.body = [success |-> FALSE,
                                    message |-> "Node not connected"]]]
             [] check = "NoAddress" ->
                  relay' = [relay EXCEPT ![r] =
                      [called EXCEPT !.pc = "done", !.status = 400,
                          !.body = [success |-> FALSE,
                                    message |-> "No IP address for node"]]]
             [] OTHER ->
                  relay' = [relay EXCEPT ![r] =
                      [called EXCEPT !.pc = "connecting", !.outbound = 1,
                          !.node_ip = IF node_name \in DOMAIN connected_clients
                                      THEN NodeIp(connected_clients, node_name)
                                      ELSE ""]]
    /\ UNCHANGED <<connected_clients, last_heartbeat, now, arrived, agentVars, apiVars, deviceVars,
                   configVars, loggerVars>>

\* the connection attempt fails with an error of the socket layer
ConnectFail(r, errno) ==
    /\ relay[r].pc = "connecting"
    /\ ~TimedOut(relay[r].timer)
    /\ Finish(r, errno, ExceptResponse(Raised(errno)))
    /\ UNCHANGED <<connected_clients, last_heartbeat, now, arrived, agentVars, apiVars, deviceVars,
                   configVars, loggerVars>>

\* nothing answers the connection attempt within the timeout
ConnectTimeout(r) ==
    /\ relay[r].pc = "connecting"
    /\ TimedOut(relay[r].timer)
    /\ Finish(r, "connect_timeout", ExceptResponse(Raised("connect_timeout")))
    /\ UNCHANGED <<connected_clients, last_heartbeat, now, arrived, agentVars, apiVars, deviceVars,
                   configVars, loggerVars>>

\* an agent listens at the address and accepts the connection
ConnectEstablished(r) ==
    /\ relay[r].pc = "connecting"
    /\ \E a \in Identities : NODE_IP[a] = relay[r].node_ip
    /\ relay[r].timer <= MaxConnectDelay
    /\ ~TimedOut(relay[r].timer)
    /\ relay' = [relay EXCEPT ![r].pc = "reading", ![r].timer = 0,
                              ![r].transport = "established"]
    /\ UNCHANGED <<connected_clients, last_heartbeat, now, arrived, agentVars, apiVars, deviceVars,
                   configVars, loggerVars>>

\* the agent at the address serves the request and the relay gets the answer;
\* every registered address of an agent is the address of the agent the URL
\* names
NodeRespond(r, fault) ==
    /\ relay[r].pc = "reading"
    /\ ~TimedOut(relay[r].timer)
    /\ LET a == CHOOSE x \in Identities : NODE_IP[x] = relay[r].node_ip
           reply == control_primary_led(a, fault)
           resp == RelayResponse(reply, relay[r].node_name, now)
           toggled == a \in LedAgents /\ ~fault
       IN  /\ relay' = [relay EXCEPT ![r].pc = "done", ![r].transport = "reply",
                            ![r].reply = reply, ![r].status = resp.status,
                            ![r].body = resp.body]
           /\ IF toggled
              THEN /\ is_lit' = [is_lit EXCEPT ![a] = ~is_lit[a]]
                   /\ last_led_state' =
                          [last_led_state EXCEPT ![a] = ~is_lit[a]]
                   /\ led_timers' = [led_timers EXCEPT ![a] = ~is_lit[a]]
              ELSE UNCHANGED agentVars
    /\ UNCHANGED <<connected_clients, last_heartbeat, now, arrived, apiVars,
                   deviceVars,
                   configVars, loggerVars>>

\* the established connection breaks before a complete answer is read, or
\* the answer has status 200 and a body that is not a JSON object
\* (response.json() or data.get raises)
ReadFault(r, event) ==
    /\ relay[r].pc = "reading"
    /\ ~TimedOut(relay[r].timer)
    /\ Finish(r, event, ExceptResponse(Raised(event)))
    /\ UNCHANGED <<connected_clients, last_heartbeat, now, arrived, agentVars, apiVars, deviceVars,
                   configVars, loggerVars>>

\* the agent accepted the connection and sends nothing within the timeout
ReadTimeout(r) ==
    /\ relay[r].pc = "reading"
    /\ TimedOut(relay[r].timer)
    /\ Finish(r, "read_timeout", ExceptResponse(Raised("read_timeout")))
    /\ UNCHANGED <<connected_clients, last_heartbeat, now, arrived, agentVars, apiVars, deviceVars,
                   configVars, loggerVars>>

\* the response of toggle_led reaches the caller
ToggleReturn(r) ==
    /\ relay[r].pc = "done"
    /\ relay' = [relay EXCEPT ![r] = IdleRelay]
    /\ UNCHANGED <<connected_clients, last_heartbeat, now, arrived, agentVars, apiVars, deviceVars,
                   configVars, loggerVars>>

\* one time unit passes; a pending timeout fires and a finished handler
\* returns before time moves on
Tick ==
    /\ now < MaxTime
    /\ \A r \in Relays : InFlight(r) => ~TimedOut(relay[r].timer)
    /\ \A r \in Relays : relay[r].pc # "done"
    /\ now' = now + 1
    /\ relay' = [r \in Relays |->
                    IF InFlight(r)
                    THEN [relay[r] EXCEPT !.timer = @ + 1, !.total = @ + 1]
                    ELSE relay[r]]
    /\ UNCHANGED <<connected_clients, last_heartbeat, arrived, agentVars, apiVars, deviceVars,
                   configVars, loggerVars>>

\* no HTTP response on its way
NoResponse == [status |-> 0, body |-> NoJson]

\* no get_status / list_nodes call in progress
IdleQuery ==
    [pc |-> "idle", kind |-> "none", at |-> 0, count |-> 0, nodes |-> {},
     status |-> 0, body |-> NoJson]

\* system_config as the module defines it
DefaultConfig ==
    [heartbeat_interval |-> 30, sensor_poll_interval |-> 5,
     led_auto_off_time |-> 300, debug_mode |-> FALSE]

\* no request thread inside the agent's device endpoint
IdleThread ==
    [pc |-> "idle", device |-> "", action |-> "", path |-> "", stmt |-> "",
     tm |-> 0, status |-> 0, body |-> NoJson, before |-> <<>>]

\* the heartbeat thread before its first pass through the loop
IdleBeat == [pc |-> "push", wake_at |-> 0, slept |-> 0]

\* the same thread at the top of `while True`, nothing logged yet
IdleLoop == [pc |-> "start", data |-> NoJson, interval |-> 0, log |-> ""]

Init ==
    /\ connected_clients = <<>>
    /\ last_heartbeat = <<>>
    /\ now = 0
    /\ arrived = <<>>
    /\ relay = [r \in Relays |-> IdleRelay]
    /\ is_lit = [a \in LedAgents |-> FALSE]
    /\ last_led_state = [a \in LedAgents |-> FALSE]
    /\ led_timers = [a \in LedAgents |-> FALSE]
    /\ hb_response = NoResponse
    /\ query = IdleQuery
    /\ system_config = DefaultConfig
    /\ timers = <<>>
    /\ led_timer = 0
    /\ thread = IdleThread
    /\ issued = <<>>
    /\ cfg_response = NoResponse
    /\ beat = IdleBeat
    /\ loop = [a \in Identities |-> IdleLoop]
    /\ raw_log = <<>>
    /\ events_log = <<>>
    /\ failover_log = <<>>
    /\ records = <<>>
    /\ buffer = <<>>
    /\ received = <<>>

Next ==
    \/ \E data \in HeartbeatBodies : ReceiveHeartbeat(data)
    \/ \E r \in Relays, node_name \in Identities : ToggleStart(r, node_name)
    \/ \E r \in Relays, errno \in {"ECONNREFUSED", "EHOSTUNREACH", "ENETUNREACH"} :
            ConnectFail(r, errno)
    \/ \E r \in Relays : ConnectTimeout(r)
    \/ \E r \in Relays : ConnectEstablished(r)
    \/ \E r \in Relays, fault \in BOOLEAN : NodeRespond(r, fault)
    \/ \E r \in Relays, event \in ReadFaults : ReadFault(r, event)
    \/ \E r \in Relays : ReadTimeout(r)
    \/ \E r \in Relays : ToggleReturn(r)
    \/ Tick

Spec == Init /\ [][Next]_vars

\* ------------------------------------- coordinator API with its responses
\* JSON objects the heartbeat endpoint is sent in this specification
ApiBodies ==
    { HeartbeatData("n1", "t1"), HeartbeatData("n2", "t1"),
      [node |-> "", ip |-> NODE_IP["n2"], status |-> "online"],
      [ip |-> NODE_IP["n1"], status |-> "online"] }

\* request payloads by what request.get_json() makes of them: a JSON object,
\* a JSON array, JSON null, or text that is not JSON
Payloads ==
    {[json |-> "object", data |-> d] : d \in ApiBodies}
        \cup {[json |-> "array"], [json |-> "null"], [json |-> "invalid"]}

\* no toggle_led call is open
RelaysIdle == \A r \in Relays : relay[r].pc = "idle"

\* str(e) of the exception the try block raises for a payload
HeartbeatError(p) ==
    CASE p.json = "array" -> "'list' object has no attribute 'get'"
      [] p.json = "null" -> "'NoneType' object has no attribute 'get'"
      [] OTHER -> "400 Bad Request: Failed to decode JSON object"

\* POST /api/heartbeat, the whole handler: parse, store, answer
PostHeartbeat(p) ==
    /\ hb_response = NoResponse
    /\ query.pc # "done"
    /\ IF p.json = "object"
       THEN /\ Len(arrived) < MaxHeartbeats
            /\ Ingest(p.data)
            /\ hb_response' =
                   [status |-> 200, payload |-> p,
                    body |-> [status |-> "received", timestamp |-> now]]
       ELSE /\ query.pc = "idle"
            /\ RelaysIdle
            /\ hb_response' =
                   [status |-> 500, payload |-> p,
                    body |-> [status |-> "error",
                              message |-> HeartbeatError(p)]]
            /\ UNCHANGED <<connected_clients, last_heartbeat, arrived>>
    /\ UNCHANGED <<now, relay, agentVars, query, deviceVars,
                   configVars, loggerVars>>

\* the response of receive_heartbeat reaches the client
HeartbeatReturn ==
    /\ hb_response # NoResponse
    /\ hb_response' = NoResponse
    /\ UNCHANGED <<connected_clients, last_heartbeat, now, arrived, relay,
                   agentVars, query, deviceVars,
                   configVars, loggerVars>>

\* variant: a list built from the identities heard of in the last time unit
NodeList_recent(clients) ==
    {n \in DOMAIN clients : n \in DOMAIN last_heartbeat
                                /\ last_heartbeat[n] = now}

\* list(connected_clients.keys()), as the set of its members
NodeList(clients) == DOMAIN clients

\* GET /api/status: the arguments of jsonify are evaluated, client_count is
\* taken from the registry as it is now
GetStatus ==
    /\ query.pc = "idle"
    /\ hb_response = NoResponse
    /\ RelaysIdle
    /\ query' = [IdleQuery EXCEPT !.pc = "serializing", !.kind = "status",
                                  !.at = Len(arrived),
                                  !.count = Cardinality(DOMAIN connected_clients)]
    /\ UNCHANGED <<connected_clients, last_heartbeat, now, arrived, relay,
                   agentVars, hb_response, deviceVars,
                   configVars, loggerVars>>

\* GET /api/nodes: the arguments of jsonify are evaluated, the key list is
\* copied from the registry as it is now
ListNodes ==
    /\ query.pc = "idle"
    /\ hb_response = NoResponse
    /\ RelaysIdle
    /\ query' = [IdleQuery EXCEPT !.pc = "serializing", !.kind = "nodes",
                                  !.at = Len(arrived),
                                  !.nodes = NodeList(connected_clients)]
    /\ UNCHANGED <<connected_clients, last_heartbeat, now, arrived, relay,
                   agentVars, hb_response, deviceVars,
                   configVars, loggerVars>>

\* jsonify serializes its arguments; the registry is passed by reference and
\* is written out as it is at this moment
QuerySerialize ==
    /\ query.pc = "serializing"
    /\ hb_response = NoResponse
    /\ query' =
          [query EXCEPT
              !.pc = "done", !.status = 200,
              !.body = IF query.kind = "status"
                       THEN [ap_status |-> "online",
                             connected_clients |-> connected_clients,
                             client_count |-> query.count,
                             timestamp |-> now]
                       ELSE [nodes |-> query.nodes,
                             details |-> connected_clients,
                             timestamp |-> now]]
    /\ UNCHANGED <<connected_clients, last_heartbeat, now, arrived, relay,
                   agentVars, hb_response, deviceVars,
                   configVars, loggerVars>>

\* the response of get_status / list_nodes reaches the client
QueryReturn ==
    /\ query.pc = "done"
    /\ query' = IdleQuery
    /\ UNCHANGED <<connected_clients, last_heartbeat, now, arrived, relay,
                   agentVars, hb_response, deviceVars,
                   configVars, loggerVars>>

\* no handler of the registry endpoints is between its first statement and
\* the delivery of its response
ApiQuiet == hb_response = NoResponse /\ query.pc = "idle"

\* one time unit passes; the handlers without a blocking call answer first
ApiTick ==
    /\ ApiQuiet
    /\ Tick

\* The registry handlers run concurrently with each other (a heartbeat can
\* be stored while a query is between evaluating and serializing its
\* arguments) and heartbeats are stored while relay calls are in flight.  A
\* relay step and a step of a read-only handler (a query, a heartbeat whose
\* payload is rejected) write disjoint variables and neither writes what the
\* other reads, so their order is immaterial: relay steps are taken when no
\* registry handler is open, and the read-only handlers start when no relay
\* call is open.
ApiNext ==
    \/ \E p \in Payloads : PostHeartbeat(p)
    \/ HeartbeatReturn
    \/ GetStatus
    \/ ListNodes
    \/ QuerySerialize
    \/ QueryReturn
    \/ ApiQuiet /\ \E r \in Relays, node_name \in Identities : ToggleStart(r, node_name)
    \/ ApiQuiet /\ \E r \in Relays : ConnectFail(r, "ECONNREFUSED")
    \/ ApiQuiet /\ \E r \in Relays : ConnectTimeout(r)
    \/ ApiQuiet /\ \E r \in Relays : ConnectEstablished(r)
    \/ ApiQuiet /\ \E r \in Relays, fault \in BOOLEAN : NodeRespond(r, fault)
    \/ ApiQuiet /\ \E r \in Relays : ReadFault(r, "connection_reset")
    \/ ApiQuiet /\ \E r \in Relays : ReadTimeout(r)
    \/ ApiQuiet /\ \E r \in Relays : ToggleReturn(r)
    \/ ApiTick

ApiSpec == Init /\ [][ApiNext]_vars

\* ------------------------------- node agent: device endpoint and LED timers
\* The agent n1 with its primary LED, statement by statement: the request
\* thread of control_device and the thread of every threading.Timer run
\* control_led concurrently, without a lock.  Thread 0 is the request thread,
\* thread i > 0 is the thread of timers[i].  The requests sent here use the
\* actions on, off, toggle and actions the device does not have; the
\* hardware works (no GPIO call raises).
ThisAgent == "n1"

PrimaryLed == Head(LedDevices(ThisAgent))

\* keys of device_manager.devices
Devices == {DeviceNames[ThisAgent][i] : i \in 1..Len(DeviceNames[ThisAgent])}

\* requests to POST /<node>/api/v1/devices/<device>/action; action "" stands
\* for a body without an action
DeviceRequests ==
    {[device |-> PrimaryLed, action |-> x, value |-> 0] :
        x \in {"on", "off", "toggle", "set", ""}}
      \cup {[device |-> "pwm_1", action |-> "on", value |-> 1],
             [device |-> "button_1", action |-> "on", value |-> 0]}
      \cup {[device |-> "led_9", action |-> x, value |-> 0] :
              x \in {"on", ""}}

\* values PUT config sends for led_auto_off_time
ConfigValues == {2}

\* variant: the action is looked at before the device name
DeviceCheck_actionFirst(device_name, action) ==
    IF action = "" THEN 400
    ELSE IF device_name \notin Devices THEN 404
    ELSE 0

\* the two aborts of control_device, 0 if the request passes both
DeviceCheck(device_name, action) ==
    IF device_name \notin Devices THEN 404
    ELSE IF action = "" THEN 400
    ELSE 0

\* the request reaches the branches of control_led that switch the LED
RunsLed(req) ==
    /\ DeviceCheck(req.device, req.action) = 0
    /\ IsLedName(req.device)
    /\ req.action \in {"on", "off", "toggle"}

\* max(0.0, min(1.0, float(value)))
Clamp(value) == IF value < 0 THEN 0 ELSE IF value > 1 THEN 1 ELSE value

\* response of control_device for a request that does not switch the LED
DeviceResult(req, pressed) ==
    LET check == DeviceCheck(req.device, req.action)
    IN  CASE check = 404 ->
               [status |-> 404,
                body |-> [error |-> "Not Found",
                          message |-> "Device not found"]]
          [] check = 400 ->
               [status |-> 400,
                body |-> [error |-> "Bad Request",
                          message |-> "Action parameter required"]]
          [] IsLedName(req.device) ->
               [status |-> 200,
                body |-> [success |-> FALSE, message |-> "Unknown action"]]
          [] req.device = "pwm_1" /\ req.action = "set" ->
               [status |-> 200,
                body |-> [success |-> TRUE, value |-> Clamp(req.value),
                          message |-> "PWM set"]]
          [] req.device = "pwm_1" ->
               [status |-> 200,
                body |-> [success |-> FALSE,
                          message |-> "Action not supported for PWM"]]
          [] req.device = "button_1" /\ req.action = "read" ->
               [status |-> 200,
                body |-> [success |-> TRUE, pressed |-> pressed,
                          message |-> "Button read"]]
          [] OTHER ->
               [status |-> 200,
                body |-> [success |-> FALSE,
                          message |-> "Buttons are read-only"]]

\* output of the LED, its last-known state and its entry in led_timers (the
\* timer the entry holds, 0 for no entry)
DeviceState == <<is_lit[ThisAgent], last_led_state[ThisAgent], led_timer>>

\* variant: one thread serves the agent, a request is taken up only while
\* no heartbeat push is in flight
ControlDevice_afterPush(req, pressed) ==
    /\ loop[ThisAgent].pc \notin {"posting", "stored", "touched"}
    /\ thread.pc = "idle"
    /\ IF RunsLed(req)
       THEN /\ Len(issued) < MaxCommands
            /\ thread' =
                  [IdleThread EXCEPT
                      !.pc = "run", !.device = req.device,
                      !.action = req.action,
                      !.path = IF req.action = "toggle" THEN ""
                               ELSE req.action,
                      !.stmt = IF req.action = "toggle" THEN "read"
                               ELSE "led",
                      !.before = DeviceState]
       ELSE /\ thread' =
                  [IdleThread EXCEPT
                      !.pc = "ret", !.device = req.device,
                      !.action = req.action,
                      !.status = DeviceResult(req, pressed).status,
                      !.body = DeviceResult(req, pressed).body]
    /\ UNCHANGED <<connected_clients, last_heartbeat, now, arrived, relay,
                   agentVars, apiVars, system_config, timers, led_timer,
                   issued,
                   configVars, loggerVars>>

\* control_device up to its response or, for on, off and toggle, up to the
\* first statement of control_led that touches the device
ControlDevice(req, pressed) ==
    /\ thread.pc = "idle"
    /\ IF RunsLed(req)
       THEN /\ Len(issued) < MaxCommands
            /\ thread' =
                  [IdleThread EXCEPT
                      !.pc = "run", !.device = req.device,
                      !.action = req.action,
                      !.path = IF req.action = "toggle" THEN ""
                               ELSE req.action,
                      !.stmt = IF req.action = "toggle" THEN "read"
                               ELSE "led",
                      !.before = DeviceState]
       ELSE /\ thread' =
                  [IdleThread EXCEPT
                      !.pc = "ret", !.device = req.device,
                      !.action = req.action,
                      !.status = DeviceResult(req, pressed).status,
                      !.body = DeviceResult(req, pressed).body]
    /\ UNCHANGED <<connected_clients, last_heartbeat, now, arrived, relay,
                   agentVars, apiVars, system_config, timers, led_timer,
                   issued,
                   configVars, loggerVars>>

\* threads that can be inside control_led
Threads == 0..Len(timers)

Running(t) ==
    IF t = 0 THEN thread.pc = "run" ELSE timers[t].state = "firing"

Stmt(t) == IF t = 0 THEN thread.stmt ELSE timers[t].stmt

\* the branch of control_led the thread is in; a timer always calls "off"
Path(t) == IF t = 0 THEN thread.path ELSE "off"

\* the thread moves to its next statement; tms is the new value of timers
Advance(t, stmt, tms) ==
    IF t = 0
    THEN /\ thread' = [thread EXCEPT !.stmt = stmt]
         /\ timers' = tms
    ELSE /\ timers' = [tms EXCEPT ![t].stmt = stmt]
         /\ UNCHANGED thread

\* control_led returns: the request thread has its response, a timer thread
\* ends; ok is FALSE when the except clause of control_led caught a KeyError
Complete(t, ok, tms) ==
    IF t = 0
    THEN /\ thread' =
               [thread EXCEPT
                   !.pc = "ret", !.stmt = "", !.status = 200,
                   !.body = IF ok
                            THEN [success |-> TRUE, state |-> thread.path,
                                  message |-> "LED " \o thread.path]
                            ELSE [success |-> FALSE,
                                  message |-> "'led_1'"]]
         /\ timers' = tms
    ELSE /\ timers' = [tms EXCEPT ![t].state = "finished", ![t].stmt = ""]
         /\ UNCHANGED thread

\* toggle: `if hasattr(led, "is_lit") and led.is_lit`
ReadLit ==
    /\ thread.pc = "run"
    /\ thread.stmt = "read"
    /\ thread' = [thread EXCEPT
                     !.path = IF is_lit[ThisAgent] THEN "off" ELSE "on",
                     !.stmt = "led"]
    /\ UNCHANGED <<connected_clients, last_heartbeat, now, arrived, relay,
                   agentVars, apiVars, system_config, timers, led_timer,
                   issued,
                   configVars, loggerVars>>

\* led.on() / led.off()
WriteLed(t) ==
    /\ Running(t)
    /\ Stmt(t) = "led"
    /\ is_lit' = [is_lit EXCEPT ![ThisAgent] = (Path(t) = "on")]
    /\ Advance(t, "state", timers)
    /\ UNCHANGED <<connected_clients, last_heartbeat, now, arrived, relay,
                   last_led_state, led_timers, apiVars, system_config,
                   led_timer, issued,
                   configVars, loggerVars>>

\* self.last_led_state[led_name] = True / False
WriteState(t) ==
    /\ Running(t)
    /\ Stmt(t) = "state"
    /\ last_led_state' =
          [last_led_state EXCEPT ![ThisAgent] = (Path(t) = "on")]
    /\ Advance(t, "in", timers)
    /\ UNCHANGED <<connected_clients, last_heartbeat, now, arrived, relay,
                   is_lit, led_timers, apiVars, system_config, led_timer,
                   issued,
                   configVars, loggerVars>>

\* _set_auto_off_timer: `if system_config["led_auto_off_time"] > 0`, then
\* in _clear_auto_off_timer: `if led_name in self.led_timers`
ClearIn(t) ==
    /\ Running(t)
    /\ Stmt(t) = "in"
    /\ IF Path(t) = "on" /\ ~(system_config.led_auto_off_time > 0)
       THEN Complete(t, TRUE, timers)
       ELSE IF led_timer # 0
       THEN Advance(t, "cancel", timers)
       ELSE IF Path(t) = "on"
       THEN Advance(t, "create", timers)
       ELSE Complete(t, TRUE, timers)
    /\ UNCHANGED <<connected_clients, last_heartbeat, now, arrived, relay,
                   agentVars, apiVars, system_config, led_timer, issued,
                   configVars, loggerVars>>

\* threading.Timer.cancel(): the finished event is set; a timer still in its
\* wait will not call its function, a timer past its wait is not stopped
Cancel(tm) ==
    IF tm.state = "waiting" THEN [tm EXCEPT !.state = "cancelled"] ELSE tm

\* self.led_timers[led_name].cancel(); KeyError if the entry is gone
ClearCancel(t) ==
    /\ Running(t)
    /\ Stmt(t) = "cancel"
    /\ IF led_timer = 0
       THEN Complete(t, FALSE, timers)
       ELSE Advance(t, "del",
               [timers EXCEPT ![led_timer] =
                   [Cancel(timers[led_timer]) EXCEPT
                       !.revoked = @ \/ timers[led_timer].state = "waiting"]])
    /\ UNCHANGED <<connected_clients, last_heartbeat, now, arrived, relay,
                   agentVars, apiVars, system_config, led_timer, issued,
                   configVars, loggerVars>>

\* del self.led_timers[led_name]; KeyError if the entry is gone
ClearDel(t) ==
    /\ Running(t)
    /\ Stmt(t) = "del"
    /\ IF led_timer = 0
       THEN /\ Complete(t, FALSE, timers)
            /\ UNCHANGED <<led_timer, led_timers>>
       ELSE /\ led_timer' = 0
            /\ led_timers' = [led_timers EXCEPT ![ThisAgent] = FALSE]
            /\ IF Path(t) = "on"
               THEN Advance(t, "create", timers)
               ELSE Complete(t, TRUE, timers)
    /\ UNCHANGED <<connected_clients, last_heartbeat, now, arrived, relay,
                   is_lit, last_led_state, apiVars, system_config, issued,
                   configVars, loggerVars>>

\* timer = threading.Timer(system_config["led_auto_off_time"], ...);
\* timer.start()
CreateTimer ==
    /\ thread.pc = "run"
    /\ thread.stmt = "create"
    /\ timers' = Append(timers,
                    [state |-> "waiting", armed_at |-> now,
                     interval |-> system_config.led_auto_off_time,
                     stmt |-> "", revoked |-> FALSE])
    /\ thread' = [thread EXCEPT !.stmt = "store", !.tm = Len(timers) + 1]
    /\ UNCHANGED <<connected_clients, last_heartbeat, now, arrived, relay,
                   agentVars, apiVars, system_config, led_timer, issued,
                   configVars, loggerVars>>

\* self.led_timers[led_name] = timer
StoreTimer ==
    /\ thread.pc = "run"
    /\ thread.stmt = "store"
    /\ led_timer' = thread.tm
    /\ led_timers' = [led_timers EXCEPT ![ThisAgent] = TRUE]
    /\ Complete(0, TRUE, timers)
    /\ UNCHANGED <<connected_clients, last_heartbeat, now, arrived, relay,
                   is_lit, last_led_state, apiVars, system_config, issued,
                   configVars, loggerVars>>

\* the response of control_device reaches the client
ControlReturn ==
    /\ thread.pc = "ret"
    /\ issued' =
          IF thread.path # ""
          THEN Append(issued,
                  [state |-> thread.path, ok |-> thread.body.success,
                   timer |-> thread.tm])
          ELSE issued
    /\ thread' = IdleThread
    /\ UNCHANGED <<connected_clients, last_heartbeat, now, arrived, relay,
                   agentVars, apiVars, system_config, timers, led_timer,
                   configVars, loggerVars>>

\* Timer.run: the wait of `interval` is over and the finished event is not
\* set, so the function will be called: control_led(led_name, "off")
TimerWake(i) ==
    /\ timers[i].state = "waiting"
    /\ now >= timers[i].armed_at + timers[i].interval
    /\ timers' = [timers EXCEPT ![i].state = "firing", ![i].stmt = "led"]
    /\ UNCHANGED <<connected_clients, last_heartbeat, now, arrived, relay,
                   agentVars, apiVars, system_config, led_timer, thread,
                   issued,
                   configVars, loggerVars>>

\* PUT config with {"led_auto_off_time": value}:
\* system_config[key] = max(1, int(value))
UpdateConfig(value) ==
    /\ thread.pc = "idle"
    /\ system_config' =
          [system_config EXCEPT
              !.led_auto_off_time = IF value < 1 THEN 1 ELSE value]
    /\ UNCHANGED <<connected_clients, last_heartbeat, now, arrived, relay,
                   agentVars, apiVars, timers, led_timer, thread, issued,
                   configVars, loggerVars>>

\* one time unit passes on the agent; a thread inside a handler finishes
\* first and a timer whose wait is over wakes first
DeviceTick ==
    /\ thread.pc = "idle"
    /\ \A i \in 1..Len(timers) :
          /\ timers[i].state # "firing"
          /\ timers[i].state = "waiting"
                => now < timers[i].armed_at + timers[i].interval
    /\ Tick

DeviceNext ==
    \/ \E req \in DeviceRequests, pressed \in BOOLEAN :
            ControlDevice(req, pressed)
    \/ ReadLit
    \/ \E t \in Threads : WriteLed(t)
    \/ \E t \in Threads : WriteState(t)
    \/ \E t \in Threads : ClearIn(t)
    \/ \E t \in Threads : ClearCancel(t)
    \/ \E t \in Threads : ClearDel(t)
    \/ CreateTimer
    \/ StoreTimer
    \/ ControlReturn
    \/ \E i \in 1..Len(timers) : TimerWake(i)
    \/ \E value \in ConfigValues : UpdateConfig(value)
    \/ DeviceTick

DeviceSpec == Init /\ [][DeviceNext]_vars

\* ------------------------------------- node agent: PUT config, heartbeat loop
\* JSON values a request can carry for a key; a string is its sequence of
\* characters, a float is given in tenths
JInt(n) == [t |-> "int", n |-> n]

JStr(s) == [t |-> "str", s |-> s]

JFloat(tenths) == [t |-> "float", tenths |-> tenths]

JBool(b) == [t |-> "bool", b |-> b]

JNull == [t |-> "null"]

JList(items) == [t |-> "list", items |-> items]

DigitValue ==
    [c \in {"0", "1", "2", "3", "4", "5", "6", "7", "8", "9"} |->
        CASE c = "0" -> 0 [] c = "1" -> 1 [] c = "2" -> 2 [] c = "3" -> 3
          [] c = "4" -> 4 [] c = "5" -> 5 [] c = "6" -> 6 [] c = "7" -> 7
          [] c = "8" -> 8 [] c = "9" -> 9]

\* str.strip() on a sequence of characters
RECURSIVE StripLeft(_)
StripLeft(s) ==
    IF s # <<>> /\ Head(s) = " " THEN StripLeft(Tail(s)) ELSE s

RECURSIVE StripRight(_)
StripRight(s) ==
    IF s # <<>> /\ s[Len(s)] = " "
    THEN StripRight(SubSeq(s, 1, Len(s) - 1)) ELSE s

Strip(s) == StripRight(StripLeft(s))

\* value of a non-empty run of decimal digits
RECURSIVE Digits(_)
Digits(s) ==
    IF s = <<>> THEN 0
    ELSE 10 * Digits(SubSeq(s, 1, Len(s) - 1)) + DigitValue[s[Len(s)]]

\* int(text): surrounding blanks dropped, an optional sign, then digits only
ParseInt(text) ==
    LET s == Strip(text)
        signed == s # <<>> /\ Head(s) \in {"+", "-"}
        body == IF signed THEN Tail(s) ELSE s
    IN  IF body = <<>> \/ \E i \in 1..Len(body) : body[i] \notin DOMAIN DigitValue
        THEN [ok |-> FALSE, exc |-> "ValueError"]
        ELSE [ok |-> TRUE,
              n |-> IF signed /\ Head(s) = "-" THEN 0 - Digits(body)
                    ELSE Digits(body)]

\* int(value) for a JSON value: numbers truncate toward zero, text is parsed,
\* null and lists raise TypeError
IntOf(value) ==
    CASE value.t = "int" -> [ok |-> TRUE, n |-> value.n]
      [] value.t = "float" ->
            [ok |-> TRUE,
             n |-> IF value.tenths >= 0 THEN value.tenths \div 10
                   ELSE 0 - ((0 - value.tenths) \div 10)]
      [] value.t = "bool" -> [ok |-> TRUE, n |-> IF value.b THEN 1 ELSE 0]
      [] value.t = "str" -> ParseInt(value.s)
      [] OTHER -> [ok |-> FALSE, exc |-> "TypeError"]

\* bool(value)
BoolOf(value) ==
    CASE value.t = "int" -> value.n # 0
      [] value.t = "float" -> value.tenths # 0
      [] value.t = "bool" -> value.b
      [] value.t = "str" -> value.s # <<>>
      [] value.t = "list" -> value.items # <<>>
      [] OTHER -> FALSE

\* variant: the value is stored as converted, without the minimum
AtLeastOne_noClamp(n) == n

\* max(1, n)
AtLeastOne(n) == IF n < 1 THEN 1 ELSE n

valid_keys ==
    {"heartbeat_interval", "sensor_poll_interval", "led_auto_off_time",
     "debug_mode"}

IntervalKeys ==
    {"heartbeat_interval", "sensor_poll_interval", "led_auto_off_time"}

\* the handler's locals while it walks the request body; status 0 = running
ConfigLocals(config) == [config |-> config, updated_keys |-> <<>>, status |-> 0, key |-> ""]

\* variant: every key of the body is taken for an interval
ApplyKey_noWhitelist(st, key, value) ==
    LET c == IntOf(value)
    IN  IF key = "debug_mode"
        THEN [st EXCEPT !.config = [@ EXCEPT !.debug_mode = BoolOf(value)],
                        !.updated_keys = Append(@, key)]
        ELSE IF c.ok
        THEN [st EXCEPT !.config = (key :> AtLeastOne(c.n)) @@ @,
                        !.updated_keys = Append(@, key)]
        ELSE [st EXCEPT !.status = IF c.exc = "ValueError" THEN 400 ELSE 500,
                        !.key = key]

\* one pass through the body of the for loop
ApplyKey(st, key, value) ==
    IF key \notin valid_keys THEN st
    ELSE IF key \in IntervalKeys
    THEN LET c == IntOf(value)
         IN  IF c.ok
             THEN [st EXCEPT !.config = [@ EXCEPT ![key] = AtLeastOne(c.n)],
                             !.updated_keys = Append(@, key)]
             ELSE [st EXCEPT
                      !.status = IF c.exc = "ValueError" THEN 400 ELSE 500,
                      !.key = key]
    ELSE IF key = "debug_mode"
    THEN [st EXCEPT !.config = [@ EXCEPT !.debug_mode = BoolOf(value)],
                    !.updated_keys = Append(@, key)]
    ELSE st

\* for key, value in data.items(): the loop from item i on; an exception
\* ends it
RECURSIVE ConfigLoop(_, _, _)
ConfigLoop(st, data, i) ==
    IF i > Len(data) \/ st.status # 0 THEN st
    ELSE ConfigLoop(ApplyKey(st, data[i][1], data[i][2]), data, i + 1)

\* the response of update_config for the locals the loop ended with
ConfigResponse(st, data) ==
    CASE st.status = 0 ->
            [status |-> 200, payload |-> data,
             body |-> [success |-> TRUE, updated_keys |-> st.updated_keys,
                       config |-> st.config]]
      [] st.status = 400 ->
            [status |-> 400, payload |-> data,
             body |-> [error |-> "Bad Request",
                       message |-> "Invalid value for " \o st.key
                                      \o ": must be integer"]]
      [] OTHER ->
            [status |-> 500, payload |-> data,
             body |-> [error |-> "Internal Server Error",
                       message |-> "An unexpected error occurred"]]

\* values the requests of the model carry
ConfigPayloadValues ==
    {JInt(0), JInt(2), JInt(0 - 4), JFloat(5), JBool(TRUE), JNull,
     JStr(<<" ", "2">>), JStr(<<"2", ".", "5">>), JStr(<<>>)}

ConfigKeys == valid_keys \cup {"hostname"}

\* request bodies: JSON objects of one or two members, in document order
ConfigRequests ==
    {<<<<k, v>>>> : k \in ConfigKeys, v \in ConfigPayloadValues}
      \cup {d \in {<<<<k1, v1>>, <<k2, v2>>>> :
                      k1 \in ConfigKeys, v1 \in {JInt(0), JNull},
                      k2 \in ConfigKeys,
                      v2 \in {JInt(2), JStr(<<"2", ".", "5">>)}} :
                d[1][1] # d[2][1]}

\* PUT /<node>/api/v1/config with the JSON object data as body
PutConfig(data) ==
    /\ cfg_response = NoResponse
    /\ LET st == ConfigLoop(ConfigLocals(system_config), data, 1)
       IN  /\ system_config' = st.config
           /\ cfg_response' = ConfigResponse(st, data)
    /\ UNCHANGED <<connected_clients, last_heartbeat, now, arrived, relay,
                   agentVars, apiVars, timers, led_timer, thread, issued,
                   beat, loop, loggerVars>>

\* the response of update_config reaches the client
ConfigReturn ==
    /\ cfg_response # NoResponse
    /\ cfg_response' = NoResponse
    /\ UNCHANGED <<connected_clients, last_heartbeat, now, arrived, relay,
                   agentVars, apiVars, deviceVars, beat, loop, loggerVars>>

\* one pass through the loop of send_heartbeat up to the call of time.sleep,
\* which reads the interval when it is called; whatever the try block ends
\* with, the thread goes on to the sleep
HeartbeatCycle ==
    /\ beat.pc = "push"
    /\ beat' = [pc |-> "sleep",
                wake_at |-> now + system_config.heartbeat_interval,
                slept |-> system_config.heartbeat_interval]
    /\ UNCHANGED <<connected_clients, last_heartbeat, now, arrived, relay,
                   agentVars, apiVars, deviceVars, cfg_response, loop,
                   loggerVars>>

\* time.sleep returns
HeartbeatWake ==
    /\ beat.pc = "sleep"
    /\ now >= beat.wake_at
    /\ beat' = [beat EXCEPT !.pc = "push"]
    /\ UNCHANGED <<connected_clients, last_heartbeat, now, arrived, relay,
                   agentVars, apiVars, deviceVars, cfg_response, loop,
                   loggerVars>>

\* one time unit passes on the agent: an open response is delivered first, a
\* thread whose sleep is over wakes first
ConfigTick ==
    /\ cfg_response = NoResponse
    /\ beat.pc = "sleep"
    /\ now < beat.wake_at
    /\ Tick

ConfigNext ==
    \/ \E data \in ConfigRequests : PutConfig(data)
    \/ ConfigReturn
    \/ HeartbeatCycle
    \/ HeartbeatWake
    \/ ConfigTick

ConfigSpec == Init /\ [][ConfigNext]_vars

\* ------------------- heartbeat loops of the agents, push by push, with the
\* ------------------- coordinator's receive_heartbeat statement by statement
\* Every agent runs send_heartbeat in a daemon thread of its own.  loop[a].pc
\* is "start" at the top of `while True`, "posting" inside requests.post
\* before the coordinator has run its handler, "stored" and "touched" after
\* the first and the second assignment of receive_heartbeat, "sleeping"
\* inside time.sleep and "ended" when the thread has terminated.  Durations
\* are events here: a timeout of the push and the end of the sleep are steps,
\* the coordinator clock is not advanced.  PUT config reaches the agent n1;
\* the other agents keep the default interval.
Agents == Identities

\* system_config["heartbeat_interval"] of the agent
IntervalOf(a) ==
    IF a = ThisAgent THEN system_config.heartbeat_interval
    ELSE DefaultConfig.heartbeat_interval

\* ways requests.post fails before the coordinator has handled the request:
\* the body cannot be serialised (sensor_data gains a key in the sensor thread
\* while it is iterated), the connection is refused, the connect or the read
\* times out after 5 units, or the reply is not a 200
PushFailures == {"RuntimeError", "ConnectionError", "Timeout", "status"}

\* the message the cycle logs: debug after a 200, warning after another
\* status, error in the except clause
LogLevel(outcome) ==
    IF outcome = "ok" THEN "debug"
    ELSE IF outcome = "status" THEN "warning"
    ELSE "error"

FailureLevels == {"warning", "error"}

\* the end of a pass: the message is logged and time.sleep is called with the
\* interval configured at that moment; time.sleep raises OverflowError for an
\* interval beyond SLEEP_MAX, outside the try block, which ends the thread
GoToSleep(a, outcome) ==
    loop' = [loop EXCEPT ![a] =
                [pc |-> IF IntervalOf(a) > SLEEP_MAX THEN "ended"
                        ELSE "sleeping",
                 data |-> NoJson,
                 interval |-> IntervalOf(a),
                 log |-> LogLevel(outcome)]]

\* variant: a failed push is tried again at once, without the sleep
PushFail_retry(a, kind) ==
    /\ loop[a].pc = "posting"
    /\ loop' = [loop EXCEPT ![a] =
                   [pc |-> "start", data |-> NoJson, interval |-> @.interval,
                    log |-> LogLevel(kind)]]
    /\ UNCHANGED <<connected_clients, last_heartbeat, now, arrived, relay,
                   agentVars, apiVars, deviceVars, cfg_response, beat,
                   loggerVars>>

\* heartbeat_data is assembled and requests.post is called
PushStart(a, ts) ==
    /\ loop[a].pc = "start"
    /\ loop' = [loop EXCEPT ![a].pc = "posting",
                            ![a].data = HeartbeatData(a, ts)]
    /\ UNCHANGED <<connected_clients, last_heartbeat, now, arrived, relay,
                   agentVars, apiVars, deviceVars, cfg_response, beat,
                   loggerVars>>

\* requests.post raises or returns a reply that is not a 200
PushFail(a, kind) ==
    /\ loop[a].pc = "posting"
    /\ GoToSleep(a, kind)
    /\ UNCHANGED <<connected_clients, last_heartbeat, now, arrived, relay,
                   agentVars, apiVars, deviceVars, cfg_response, beat,
                   loggerVars>>

\* receive_heartbeat: `connected_clients[node_name] = {...}`
HandlerStore(a) ==
    /\ loop[a].pc = "posting"
    /\ LET node_name == Get(loop[a].data, "node", None)
       IN  connected_clients' =
              IF Truthy(node_name)
              THEN StoreHeartbeat(connected_clients, node_name, loop[a].data)
              ELSE connected_clients
    /\ loop' = [loop EXCEPT ![a].pc = "stored"]
    /\ UNCHANGED <<last_heartbeat, now, arrived, relay,
                   agentVars, apiVars, deviceVars, cfg_response, beat,
                   loggerVars>>

\* receive_heartbeat: `last_heartbeat[node_name] = datetime.now()`, then the
\* reply is sent
HandlerTouch(a) ==
    /\ loop[a].pc = "stored"
    /\ LET node_name == Get(loop[a].data, "node", None)
       IN  last_heartbeat' =
              IF Truthy(node_name)
              THEN Touch(last_heartbeat, node_name, now)
              ELSE last_heartbeat
    /\ loop' = [loop EXCEPT ![a].pc = "touched"]
    /\ UNCHANGED <<connected_clients, now, arrived, relay,
                   agentVars, apiVars, deviceVars, cfg_response, beat,
                   loggerVars>>

\* the 200 reaches the agent
PushOk(a) ==
    /\ loop[a].pc = "touched"
    /\ GoToSleep(a, "ok")
    /\ UNCHANGED <<connected_clients, last_heartbeat, now, arrived, relay,
                   agentVars, apiVars, deviceVars, cfg_response, beat,
                   loggerVars>>

\* the reply does not reach the agent within the read timeout
ReplyLost(a) ==
    /\ loop[a].pc = "touched"
    /\ GoToSleep(a, "Timeout")
    /\ UNCHANGED <<connected_clients, last_heartbeat, now, arrived, relay,
                   agentVars, apiVars, deviceVars, cfg_response, beat,
                   loggerVars>>

\* time.sleep returns after the interval it was called with
Wake(a) ==
    /\ loop[a].pc = "sleeping"
    /\ loop' = [loop EXCEPT ![a].pc = "start"]
    /\ UNCHANGED <<connected_clients, last_heartbeat, now, arrived, relay,
                   agentVars, apiVars, deviceVars, cfg_response, beat,
                   loggerVars>>

\* PUT config bodies that set the heartbeat interval
IntervalRequests ==
    {<<<<"heartbeat_interval", JInt(2)>>>>,
     <<<<"heartbeat_interval", JInt(SLEEP_MAX + 1)>>>>}

BeatNext ==
    \/ \E a \in Agents, ts \in Timestamps : PushStart(a, ts)
    \/ \E a \in Agents, kind \in PushFailures : PushFail(a, kind)
    \/ \E a \in Agents : HandlerStore(a)
    \/ \E a \in Agents : HandlerTouch(a)
    \/ \E a \in Agents : PushOk(a)
    \/ \E a \in Agents : ReplyLost(a)
    \/ \E a \in Agents : Wake(a)
    \/ \E data \in IntervalRequests : PutConfig(data)
    \/ ConfigReturn

BeatSpec == Init /\ [][BeatNext]_vars

\* The same with the scheduling the programs run under: a thread that can
\* take its next step takes it (the heartbeat thread reaches requests.post
\* and leaves time.sleep); requests.post ends, timeout=5 bounding the wait
\* for the connection and for the reply; the network eventually delivers, so
\* a request sent again and again is handled at some time; the coordinator
\* runs, so a handler that has begun goes on to its next statement.
BeatLive ==
    /\ BeatSpec
    /\ \A a \in Agents :
          /\ WF_vars(\E ts \in Timestamps : PushStart(a, ts))
          /\ WF_vars(HandlerStore(a)
                       \/ \E kind \in PushFailures : PushFail(a, kind))
          /\ SF_vars(HandlerStore(a))
          /\ WF_vars(HandlerTouch(a))
          /\ WF_vars(PushOk(a) \/ ReplyLost(a))
          /\ WF_vars(Wake(a))

\* The agent n1 as a whole: its heartbeat thread and the request thread of
\* its device endpoint, started side by side (the heartbeat thread is a
\* daemon thread, the Flask server handles requests in threads of their own).
ServeRequests ==
    {req \in DeviceRequests :
        req.device = PrimaryLed /\ req.action \in {"on", "off"}}

\* the next step of the heartbeat thread of agent a or of the request it has
\* in flight
LoopStep(a) ==
    \/ \E ts \in Timestamps : PushStart(a, ts)
    \/ \E kind \in PushFailures : PushFail(a, kind)
    \/ HandlerStore(a)
    \/ HandlerTouch(a)
    \/ PushOk(a)
    \/ ReplyLost(a)
    \/ Wake(a)

\* the next statement of the request thread inside control_led
DeviceStep ==
    \/ WriteLed(0)
    \/ WriteState(0)
    \/ ClearIn(0)
    \/ ClearCancel(0)
    \/ ClearDel(0)
    \/ CreateTimer
    \/ StoreTimer

ServeNext ==
    \/ LoopStep(ThisAgent)
    \/ \E req \in ServeRequests : ControlDevice(req, FALSE)
    \/ DeviceStep
    \/ ControlReturn

ServeSpec == Init /\ [][ServeNext]_vars

\* ----------------------------------------- serial logger: event detection
\* A line of serial output is the sequence of its words; blanks between words
\* are not kept.  A pattern is a sequence of words and occurs in a line where
\* its words stand next to each other.
Contains(line, pattern) ==
    \E i \in 1..(Len(line) - Len(pattern) + 1) :
        SubSeq(line, i, i + Len(pattern) - 1) = pattern

\* str.lower() on the words whose case the lines of the model vary
LowerWord(w) ==
    CASE w = "ONLINE" -> "online"
      [] w = "OFFLINE" -> "offline"
      [] OTHER -> w

Lower(line) == [i \in DOMAIN line |-> LowerWord(line[i])]

\* position of the first word w of a line, Len(line) + 1 if there is none
FirstIndex(line, w) ==
    IF \E i \in DOMAIN line : line[i] = w
    THEN CHOOSE i \in DOMAIN line :
            line[i] = w /\ \A j \in 1..(i - 1) : line[j] # w
    ELSE Len(line) + 1

\* line.split(w)[0]
BeforeFirst(line, w) == SubSeq(line, 1, FirstIndex(line, w) - 1)

\* line.split(w)[1] for a line that holds w: the text between the first w and
\* the next one
AfterFirst(line, w) ==
    BeforeFirst(SubSeq(line, FirstIndex(line, w) + 1, Len(line)), w)

\* words int() accepts, with their values
NumeralValue == ("-67" :> (0 - 67)) @@ ("-80" :> (0 - 80))

\* int(text) for a piece of a line: exactly one word, and that a numeral
IntOfText(text) ==
    IF Len(text) = 1 /\ text[1] \in DOMAIN NumeralValue
    THEN [ok |-> TRUE, n |-> NumeralValue[text[1]]]
    ELSE [ok |-> FALSE, exc |-> "ValueError"]

\* the dict detect_events starts from
EventData(timestamp, line) ==
    [timestamp |-> timestamp, event_type |-> "unknown",
     primary_ap_status |-> "unknown", backup_ap_status |-> "unknown",
     active_ap_mac |-> <<>>, signal_strength |-> 0,
     failover_detected |-> FALSE, details |-> line]

\* variant: a Primary AP line without a status word records the access point
\* as seen while the kind stays unknown
Classify_seen(event_data, line) ==
    IF Contains(line, <<"FAILOVER", "DETECTED">>)
    THEN [event_data EXCEPT !.event_type = "failover",
                            !.failover_detected = TRUE]
    ELSE IF Contains(line, <<"Primary", "AP">>)
    THEN IF Contains(Lower(line), <<"online">>)
         THEN [event_data EXCEPT !.primary_ap_status = "online",
                                 !.event_type = "primary_ap_online"]
         ELSE IF Contains(Lower(line), <<"offline">>)
         THEN [event_data EXCEPT !.primary_ap_status = "offline",
                                 !.event_type = "primary_ap_offline"]
         ELSE [event_data EXCEPT !.primary_ap_status = "seen"]
    ELSE IF Contains(line, <<"Backup", "AP">>)
    THEN IF Contains(Lower(line), <<"online">>)
         THEN [event_data EXCEPT !.backup_ap_status = "online",
                                 !.event_type = "backup_ap_online"]
         ELSE IF Contains(Lower(line), <<"offline">>)
         THEN [event_data EXCEPT !.backup_ap_status = "offline",
                                 !.event_type = "backup_ap_offline"]
         ELSE event_data
    ELSE IF Contains(line, <<"Apple", "network", "found">>)
    THEN [event_data EXCEPT !.event_type = "apple_network_detected"]
    ELSE IF Contains(line, <<"No", "Apple", "networks", "found">>)
    THEN [event_data EXCEPT !.event_type = "apple_network_lost"]
    ELSE event_data

\* the if / elif chain of detect_events
Classify(event_data, line) ==
    IF Contains(line, <<"FAILOVER", "DETECTED">>)
    THEN [event_data EXCEPT !.event_type = "failover",
                            !.failover_detected = TRUE]
    ELSE IF Contains(line, <<"Primary", "AP">>)
    THEN IF Contains(Lower(line), <<"online">>)
         THEN [event_data EXCEPT !.primary_ap_status = "online",
                                 !.event_type = "primary_ap_online"]
         ELSE IF Contains(Lower(line), <<"offline">>)
         THEN [event_data EXCEPT !.primary_ap_status = "offline",
                                 !.event_type = "primary_ap_offline"]
         ELSE event_data
    ELSE IF Contains(line, <<"Backup", "AP">>)
    THEN IF Contains(Lower(line), <<"online">>)
         THEN [event_data EXCEPT !.backup_ap_status = "online",
                                 !.event_type = "backup_ap_online"]
         ELSE IF Contains(Lower(line), <<"offline">>)
         THEN [event_data EXCEPT !.backup_ap_status = "offline",
                                 !.event_type = "backup_ap_offline"]
         ELSE event_data
    ELSE IF Contains(line, <<"Apple", "network", "found">>)
    THEN [event_data EXCEPT !.event_type = "apple_network_detected"]
    ELSE IF Contains(line, <<"No", "Apple", "networks", "found">>)
    THEN [event_data EXCEPT !.event_type = "apple_network_lost"]
    ELSE event_data

\* signal strength: the text between the first "Signal:" and the next "dBm";
\* an exception leaves the field as it is
ExtractSignal(event_data, line) ==
    IF Contains(line, <<"Signal:">>) /\ Contains(line, <<"dBm">>)
    THEN LET signal_part == BeforeFirst(AfterFirst(line, "Signal:"), "dBm")
             c == IntOfText(signal_part)
         IN  IF c.ok THEN [event_data EXCEPT !.signal_strength = c.n]
             ELSE event_data
    ELSE event_data

\* MAC address: the text after the first "BSSID:"
ExtractMac(event_data, line) ==
    IF Contains(line, <<"BSSID:">>)
    THEN [event_data EXCEPT !.active_ap_mac = AfterFirst(line, "BSSID:")]
    ELSE event_data

\* the event_data detect_events ends with, from the dict it starts from
detect_events(event_data, line) ==
    ExtractMac(ExtractSignal(Classify(event_data, line), line), line)

\* the row log_event_csv writes
CsvRow(event_data) ==
    <<event_data.timestamp, event_data.event_type,
      event_data.primary_ap_status, event_data.backup_ap_status,
      event_data.active_ap_mac, event_data.signal_strength,
      event_data.failover_detected, event_data.details>>

\* phrases the lines of the model are made of
KindPhrases ==
    {<<"FAILOVER", "DETECTED">>,
     <<"Primary", "AP", "online">>,
     <<"Primary", "AP", "OFFLINE">>,
     <<"Primary", "AP", "scanning">>,
     <<"Backup", "AP", "ONLINE">>,
     <<"Backup", "AP", "offline">>,
     <<"Apple", "network", "found">>,
     <<"No", "Apple", "networks", "found">>}

FieldPhrases ==
    {<<"Signal:", "-67", "dBm">>,
     <<"Signal:", "n/a">>,
     <<"Signal:", "-6x", "dBm">>,
     <<"BSSID:", "AA:BB:CC:DD:EE:FF">>}

\* lines process_line is called with: the empty line, one phrase, two
\* different status phrases, or a phrase followed by a field phrase
Lines ==
    {<<>>} \cup KindPhrases \cup FieldPhrases
      \cup {x[1] \o x[2] :
              x \in {y \in KindPhrases \X KindPhrases : y[1] # y[2]}}
      \cup {x[1] \o x[2] :
              x \in {y \in {<<"FAILOVER", "DETECTED">>,
                            <<"Primary", "AP", "OFFLINE">>,
                            <<"Primary", "AP", "scanning">>,
                            <<"Signal:", "n/a">>,
                            <<"BSSID:", "AA:BB:CC:DD:EE:FF">>}
                              \X FieldPhrases : y[1] # y[2]}}

\* process_line for a line whose detect_events call ends with the dict ev;
\* the failover log is written in the branch that sets the failover kind, the
\* CSV row at the end of detect_events
Process(line, ev) ==
    /\ Len(records) < MaxLines
    /\ IF line = <<>>
       THEN UNCHANGED loggerVars
       ELSE /\ raw_log' = Append(raw_log, <<ev.timestamp, line>>)
            /\ failover_log' =
                  IF ev.event_type = "failover"
                  THEN Append(failover_log, <<ev.timestamp, line>>)
                  ELSE failover_log
            /\ events_log' =
                  IF ev.event_type # "unknown"
                  THEN Append(events_log, CsvRow(ev))
                  ELSE events_log
            /\ records' = Append(records, ev)
            /\ UNCHANGED <<buffer, received>>
    /\ UNCHANGED <<connected_clients, last_heartbeat, now, arrived, relay,
                   agentVars, apiVars, deviceVars, configVars>>

\* variant: a line equal to the line before it is not classified again
ProcessLine_debounce(line) ==
    Process(line,
            IF records # <<>> /\ records[Len(records)].details = line
            THEN EventData(now, line)
            ELSE detect_events(EventData(now, line), line))

\* process_line(line), the call of detect_events included; the clock of the
\* logger is read for the timestamp
ProcessLine(line) == Process(line, detect_events(EventData(now, line), line))

LoggerNext == \E line \in Lines : ProcessLine(line)

LoggerSpec == Init /\ [][LoggerNext]_vars

\* ------------------------------------------------ serial logger: monitor_loop
\* Bytes on the serial line: the letter a, a blank, the newline, and the two
\* bytes C3 A9 that encode the one character e-acute in UTF-8.
Bytes == {"a", " ", "LF", "C3", "A9"}

\* bytes.decode('utf-8', errors='ignore') of one chunk from position i: a
\* lead byte followed by its continuation byte is one character; a lead byte
\* without it (also at the end of the chunk) and a continuation byte without
\* a lead byte are dropped
RECURSIVE DecodeFrom(_, _)
DecodeFrom(bytes, i) ==
    IF i > Len(bytes) THEN <<>>
    ELSE IF bytes[i] = "C3"
    THEN IF i < Len(bytes) /\ bytes[i + 1] = "A9"
         THEN <<"e-acute">> \o DecodeFrom(bytes, i + 2)
         ELSE DecodeFrom(bytes, i + 1)
    ELSE IF bytes[i] = "A9" THEN DecodeFrom(bytes, i + 1)
    ELSE <<bytes[i]>> \o DecodeFrom(bytes, i + 1)

Decode(bytes) == DecodeFrom(bytes, 1)

\* position of the first newline of a text that has one
RECURSIVE FirstNewline(_)
FirstNewline(text) ==
    IF Head(text) = "LF" THEN 1 ELSE 1 + FirstNewline(Tail(text))

HasNewline(text) == \E i \in 1..Len(text) : text[i] = "LF"

\* `while '\n' in buffer: line, buffer = buffer.split('\n', 1)`: the lines
\* taken off the front of the text, each stripped, and the text left over
RECURSIVE SplitLines(_)
SplitLines(text) ==
    IF HasNewline(text)
    THEN LET k == FirstNewline(text)
             more == SplitLines(SubSeq(text, k + 1, Len(text)))
         IN  [lines |-> <<Strip(SubSeq(text, 1, k - 1))>> \o more.lines,
              rest |-> more.rest]
    ELSE [lines |-> <<>>, rest |-> text]

\* the files and the records after process_line has been called with each of
\* the lines in turn; an empty line returns at once
RECURSIVE ProcessAll(_, _, _)
ProcessAll(logs, timestamp, lines) ==
    IF lines = <<>> THEN logs
    ELSE LET line == Head(lines)
             ev == detect_events(EventData(timestamp, line), line)
             after ==
               IF line = <<>> THEN logs
               ELSE [raw |-> Append(logs.raw, <<timestamp, line>>),
                     failover |->
                        IF ev.event_type = "failover"
                        THEN Append(logs.failover, <<timestamp, line>>)
                        ELSE logs.failover,
                     events |->
                        IF ev.event_type # "unknown"
                        THEN Append(logs.events, CsvRow(ev))
                        ELSE logs.events,
                     recs |-> Append(logs.recs, ev)]
         IN  ProcessAll(after, timestamp, Tail(lines))

\* chunks serial_conn.read(in_waiting) can return: any bytes, at most n of them
Chunks(n) == UNION {[1..k -> Bytes] : k \in 1..n}

\* one pass of monitor_loop with bytes waiting: the chunk is read and decoded,
\* appended to the buffer, and every complete line is cut off and processed
SerialRead(chunk) ==
    /\ Len(received) + Len(chunk) <= MaxBytes
    /\ LET data == Decode(chunk)
           cut == SplitLines(buffer \o data)
           logs == ProcessAll([raw |-> raw_log, failover |-> failover_log,
                               events |-> events_log, recs |-> records],
                              now, cut.lines)
       IN  /\ buffer' = cut.rest
           /\ raw_log' = logs.raw
           /\ failover_log' = logs.failover
           /\ events_log' = logs.events
           /\ records' = logs.recs
    /\ received' = received \o chunk
    /\ UNCHANGED <<connected_clients, last_heartbeat, now, arrived, relay,
                   agentVars, apiVars, deviceVars, configVars>>

SerialNext == \E chunk \in Chunks(MaxBytes - Len(received)) : SerialRead(chunk)

SerialSpec == Init /\ [][SerialNext]_vars

\* ================================================================ claims
\* identity a heartbeat body is registered under, None if it registers nothing
IdentityOf(d) ==
    IF "node" \in DOMAIN d /\ d["node"] # None /\ d["node"] # ""
    THEN d["node"] ELSE None

\* heartbeat bodies for identity n among the first k requests, in arrival order
ArrivalsFor(n, k) ==
    SelectSeq(SubSeq(arrived, 1, k), LAMBDA d : IdentityOf(d) = n)

StoredFields == {"ip", "status", "timestamp", "devices", "sensor_data"}

\* value of a stored field for a body: the pushed value, else the default
Pushed(d, f) ==
    IF f \in DOMAIN d THEN d[f]
    ELSE IF f \in {"devices", "sensor_data"} THEN <<>> ELSE None

Count == Cardinality(DOMAIN connected_clients)

\* C1: after the N-th heartbeat ingested for an identity the registry entry of
\* that identity is exactly the descriptor of the N-th body in arrival order:
\* every stored field comes from that body (or is the default when the body
\* lacks it), nothing of an earlier body survives, whatever the node-side
\* timestamps say.
C1_LastArrivalWins ==
    \A n \in Identities :
        LET hs == ArrivalsFor(n, Len(arrived))
        IN  hs # <<>> =>
              /\ n \in DOMAIN connected_clients
              /\ DOMAIN connected_clients[n] = StoredFields
              /\ \A f \in StoredFields :
                    connected_clients[n][f] = Pushed(hs[Len(hs)], f)

\* a heartbeat with an older node-side timestamp arrived after a newer one and
\* the registry shows the older one
C1_Witness ==
    \E n \in Identities :
        LET hs == ArrivalsFor(n, Len(arrived))
        IN  /\ Len(hs) >= 2
            /\ "timestamp" \in DOMAIN hs[Len(hs)]
            /\ "timestamp" \in DOMAIN hs[Len(hs) - 1]
            /\ TsOrder(hs[Len(hs)].timestamp) < TsOrder(hs[Len(hs) - 1].timestamp)
            /\ connected_clients[n].timestamp = hs[Len(hs)].timestamp

\* C2: a toggle for an identity no heartbeat has registered by the time of the
\* call answers 404 "not connected" at once and sends no request to any node.
C2_UnknownNodeNoCall ==
    \A r \in Relays :
        (relay[r].pc # "idle"
            /\ ArrivalsFor(relay[r].node_name, relay[r].at) = <<>>)
        => /\ relay[r].pc = "done"
           /\ relay[r].status = 404
           /\ relay[r].body.message = "Node not connected"
           /\ relay[r].outbound = 0
           /\ relay[r].transport = "none"

\* a toggle for an unregistered identity answered while another is registered
C2_Witness ==
    \E r \in Relays :
        /\ relay[r].pc = "done"
        /\ relay[r].status = 404
        /\ relay[r].outbound = 0
        /\ ArrivalsFor(relay[r].node_name, relay[r].at) = <<>>
        /\ connected_clients # <<>>

\* C3: a relay whose node never answers (the connection attempt or the wait
\* for the reply gets nothing) ends with 408 Timeout, not before RELAY_TIMEOUT
\* time units have passed since the request was sent, and no relay waits
\* longer than the timeout in either phase.
C3_TimeoutAtBound ==
    \A r \in Relays :
        /\ InFlight(r) =>
              /\ relay[r].timer <= RELAY_TIMEOUT
              /\ relay[r].total <= RELAY_TIMEOUT + MaxConnectDelay
        /\ (relay[r].pc = "done"
               /\ relay[r].transport \in {"connect_timeout", "read_timeout"})
           => /\ relay[r].status = 408
              /\ relay[r].body.message = "Timeout connecting to"
              /\ relay[r].total >= RELAY_TIMEOUT
              /\ relay[r].total <= RELAY_TIMEOUT + MaxConnectDelay

\* the node accepted the connection and never replied: 408 after the bound
C3_Witness ==
    \E r \in Relays :
        /\ relay[r].pc = "done"
        /\ relay[r].transport = "read_timeout"
        /\ relay[r].status = 408
        /\ relay[r].total >= RELAY_TIMEOUT

ConnectErrors == {"ECONNREFUSED", "EHOSTUNREACH", "ENETUNREACH"}

\* C4 as stated: every failed connection attempt is answered 503 Unreachable
C4_Original ==
    \A r \in Relays :
        (relay[r].pc = "done"
            /\ relay[r].transport \in ConnectErrors \cup {"connect_timeout"})
        => relay[r].status = 503

\* C4 (amended): a connection attempt that fails with an error of the socket
\* layer (refused, no route to host, network unreachable) is answered 503
\* "Cannot connect", never 408 or 500; a connection attempt that gets no
\* answer within the timeout is answered 408 Timeout.
C4_UnreachableOrTimeout ==
    \A r \in Relays :
        relay[r].pc = "done" =>
            /\ relay[r].transport \in ConnectErrors =>
                  /\ relay[r].status = 503
                  /\ relay[r].body.message = "Cannot connect to"
            /\ relay[r].transport = "connect_timeout" => relay[r].status = 408

\* a relay to a registered node ended by "no route to host", answered 503
C4_Witness ==
    \E r \in Relays :
        /\ relay[r].pc = "done"
        /\ relay[r].transport = "EHOSTUNREACH"
        /\ relay[r].node_name \in DOMAIN connected_clients
        /\ relay[r].status = 503

\* C5: the status of a toggle response identifies its class: a failure the
\* node itself reported is never answered with 404, 400, 408, 503 or 500.
C5_StatusIdentifiesClass ==
    \A r \in Relays :
        (relay[r].pc = "done" /\ relay[r].transport = "reply")
        => relay[r].status \notin {404, 400, 408, 503, 500}

\* C6: when the node answers, the relay's success flag equals the success the
\* node's payload reports and the state returned is the state the node
\* reported.
C6_PassThrough ==
    \A r \in Relays :
        (relay[r].pc = "done" /\ relay[r].transport = "reply")
        => /\ relay[r].body.success =
                  ("success" \in DOMAIN relay[r].reply.json
                      /\ relay[r].reply.json.success)
           /\ "state" \in DOMAIN relay[r].reply.json =>
                  /\ "state" \in DOMAIN relay[r].body
                  /\ relay[r].body.state = relay[r].reply.json.state

\* C7: a toggle for an identity whose latest heartbeat at the time of the call
\* carries no usable address (ip absent, null or empty) answers 400 "No IP
\* address" without sending a request; an identity that is not registered is
\* answered 404, never 400.
C7_NoAddress ==
    \A r \in Relays :
        relay[r].pc # "idle" =>
            LET hs == ArrivalsFor(relay[r].node_name, relay[r].at)
            IN  /\ (hs # <<>> /\ Pushed(hs[Len(hs)], "ip") \in {None, ""})
                   => /\ relay[r].pc = "done"
                      /\ relay[r].status = 400
                      /\ relay[r].body.message = "No IP address for node"
                      /\ relay[r].outbound = 0
                /\ hs = <<>> => relay[r].status # 400

\* a registered identity whose heartbeat had no ip field at all, answered 400
C7_Witness ==
    \E r \in Relays :
        LET hs == ArrivalsFor(relay[r].node_name, relay[r].at)
        IN  /\ relay[r].pc = "done"
            /\ hs # <<>>
            /\ "ip" \notin DOMAIN hs[Len(hs)]
            /\ relay[r].status = 400
            /\ relay[r].outbound = 0

\* C8 as stated: after exactly one heartbeat the entry holds every field the
\* node pushed
C8_Original ==
    \A n \in Identities :
        LET hs == ArrivalsFor(n, Len(arrived))
        IN  Len(hs) = 1 =>
              \A f \in DOMAIN hs[1] \ {"node"} :
                  /\ n \in DOMAIN connected_clients
                  /\ f \in DOMAIN connected_clients[n]
                  /\ connected_clients[n][f] = hs[1][f]

\* C8 (amended): an identity that never heartbeated is absent from the
\* registry; after exactly one heartbeat its entry holds the ip, status,
\* timestamp, devices and sensor_data of that heartbeat (defaults where the
\* body lacks them) and no other field: the pushed system_info is not stored.
C8_LookupAfterFirstHeartbeat ==
    \A n \in Identities :
        LET hs == ArrivalsFor(n, Len(arrived))
        IN  /\ hs = <<>> => n \notin DOMAIN connected_clients
            /\ Len(hs) = 1 =>
                  /\ n \in DOMAIN connected_clients
                  /\ \A f \in StoredFields :
                        /\ f \in DOMAIN connected_clients[n]
                        /\ connected_clients[n][f] = Pushed(hs[1], f)
                  /\ "system_info" \notin DOMAIN connected_clients[n]

\* one identity registered by exactly one agent heartbeat (with sensor data and
\* system_info), the other identity still unknown
C8_Witness ==
    \E n, m \in Identities :
        LET hs == ArrivalsFor(n, Len(arrived))
        IN  /\ Len(hs) = 1
            /\ "system_info" \in DOMAIN hs[1]
            /\ hs[1].sensor_data # <<>>
            /\ n \in DOMAIN connected_clients
            /\ ArrivalsFor(m, Len(arrived)) = <<>>
            /\ m \notin DOMAIN connected_clients

\* this step ingests, for identity n, a body identical to the previous body
\* ingested for n
Reingest(n) ==
    /\ Len(arrived') = Len(arrived) + 1
    /\ IdentityOf(arrived'[Len(arrived')]) = n
    /\ LET hs == ArrivalsFor(n, Len(arrived))
       IN  /\ hs # <<>>
           /\ hs[Len(hs)] = arrived'[Len(arrived')]

\* C9 as stated: re-ingesting an identical body changes nothing in the
\* registry, the last-heartbeat time included
C9_Original ==
    [][\A n \in Identities :
          Reingest(n) =>
              /\ connected_clients' = connected_clients
              /\ last_heartbeat' = last_heartbeat
              /\ Count' = Count]_vars

\* C9 (amended): re-ingesting an identical body leaves every stored
\* descriptor and count() unchanged and leaves the last-heartbeat time of
\* every other identity unchanged; the last-heartbeat time of the identity
\* itself is refreshed to the time of the re-ingestion.
C9_ReingestKeepsDescriptors ==
    [][\A n \in Identities :
          Reingest(n) =>
              /\ connected_clients' = connected_clients
              /\ Count' = Count
              /\ DOMAIN last_heartbeat' = DOMAIN last_heartbeat
              /\ last_heartbeat'[n] = now
              /\ \A m \in DOMAIN last_heartbeat \ {n} :
                    last_heartbeat'[m] = last_heartbeat[m]]_vars

\* the same body was ingested twice in a row for an identity, the second time
\* after time had passed
C9_Witness ==
    \E n \in Identities :
        LET hs == ArrivalsFor(n, Len(arrived))
        IN  /\ Len(hs) >= 2
            /\ hs[Len(hs)] = hs[Len(hs) - 1]
            /\ last_heartbeat[n] > 0

\* C10: no step removes an identity from the registry, so count() never
\* decreases, and a toggle for a registered identity passes the NodeUnknown
\* check however long ago its last heartbeat was.
C10_NeverEvicted ==
    [][/\ DOMAIN connected_clients \subseteq DOMAIN connected_clients'
       /\ DOMAIN last_heartbeat \subseteq DOMAIN last_heartbeat'
       /\ Count' >= Count
       /\ \A r \in Relays :
             (relay[r].pc = "idle" /\ relay'[r].pc # "idle"
                 /\ relay'[r].node_name \in DOMAIN connected_clients)
             => relay'[r].status # 404]_vars

\* a toggle just sent to a node whose last heartbeat is at least RELAY_TIMEOUT
\* time units old
C10_Witness ==
    \E r \in Relays :
        /\ relay[r].pc = "connecting"
        /\ relay[r].total = 0
        /\ relay[r].node_name \in DOMAIN last_heartbeat
        /\ now - last_heartbeat[relay[r].node_name] >= RELAY_TIMEOUT

\* descriptor and last-seen time of identity n differ between the two states
\* of a step
EntryChanged(n) ==
    \/ (n \in DOMAIN connected_clients) # (n \in DOMAIN connected_clients')
    \/ /\ n \in DOMAIN connected_clients
       /\ n \in DOMAIN connected_clients'
       /\ connected_clients'[n] # connected_clients[n]
    \/ (n \in DOMAIN last_heartbeat) # (n \in DOMAIN last_heartbeat')
    \/ /\ n \in DOMAIN last_heartbeat
       /\ n \in DOMAIN last_heartbeat'
       /\ last_heartbeat'[n] # last_heartbeat[n]

\* the step is the arrival of a heartbeat body registered under identity n
ArrivalOf(n) ==
    /\ Len(arrived') = Len(arrived) + 1
    /\ IdentityOf(arrived'[Len(arrived')]) = n

\* C11: the descriptor and the last-seen time of an identity change only in
\* a step that ingests a heartbeat for that identity; steps of relay calls
\* (whatever their outcome), of status and node-list queries, and heartbeats
\* registered under another identity or under none leave them as they are,
\* also when these run while other handlers are open.
C11_OnlyOwnHeartbeat ==
    [][/\ \A n \in Identities : EntryChanged(n) => ArrivalOf(n)
       /\ DOMAIN connected_clients' \subseteq Identities
       /\ DOMAIN last_heartbeat' \subseteq Identities]_vars

\* a relay call for n1 started after n1's heartbeat and ended after a
\* heartbeat for n2 had been stored; n1's entry is the one of its own body
C11_Witness ==
    \E r \in Relays :
        /\ relay[r].pc = "done"
        /\ relay[r].node_name = "n1"
        /\ relay[r].at = 1
        /\ Len(arrived) = 2
        /\ IdentityOf(arrived[1]) = "n1"
        /\ IdentityOf(arrived[2]) = "n2"
        /\ connected_clients["n1"].timestamp = arrived[1].timestamp
        /\ last_heartbeat["n1"] < last_heartbeat["n2"]

\* C12: POST /api/heartbeat answers 200 with an acknowledgment carrying a
\* server timestamp for every body that parses as JSON, whatever its fields
\* or shape, and answers a structured non-2xx error exactly when the body
\* does not parse, leaving the registry unchanged.
C12_AckUnlessUnparseable ==
    [][(hb_response = NoResponse /\ hb_response' # NoResponse) =>
          IF hb_response'.payload.json # "invalid"
          THEN /\ hb_response'.status = 200
               /\ hb_response'.body.status = "received"
               /\ "timestamp" \in DOMAIN hb_response'.body
          ELSE /\ hb_response'.status \notin 200..299
               /\ hb_response'.body.status = "error"
               /\ "message" \in DOMAIN hb_response'.body
               /\ connected_clients' = connected_clients
               /\ last_heartbeat' = last_heartbeat]_vars

\* identities registered by the first k heartbeat requests
RegisteredBy(k) == {n \in Identities : ArrivalsFor(n, k) # <<>>}

\* C13: a heartbeat with a non-empty identity is acknowledged and its
\* identity is in the registry when the handler has finished; a node list
\* computed after that names it, a lookup by the relay finds it; a heartbeat
\* whose identity is missing or empty creates no entry and leaves the
\* registry and the last-seen times as they were.
C13_IngestVisible ==
    [][/\ (Len(arrived') = Len(arrived) + 1) =>
            LET n == IdentityOf(arrived'[Len(arrived')])
            IN  IF n # None
                THEN /\ n \in DOMAIN connected_clients'
                     /\ n \in DOMAIN last_heartbeat'
                     /\ hb_response'.status = 200
                ELSE /\ connected_clients' = connected_clients
                     /\ last_heartbeat' = last_heartbeat
       /\ (DOMAIN connected_clients = RegisteredBy(Len(arrived)))'
       /\ (query.pc = "done" /\ query.kind = "nodes"
              => /\ RegisteredBy(query.at) \subseteq query.body.nodes
                 /\ RegisteredBy(query.at) \subseteq DOMAIN query.body.details)'
       /\ (\A r \in Relays :
              (relay[r].pc # "idle"
                  /\ relay[r].node_name \in RegisteredBy(relay[r].at))
              => ~(relay[r].status = 404
                      /\ relay[r].body.message = "Node not connected"))']_vars

\* a node list answered after a heartbeat for n1 and a heartbeat with an
\* empty identity names n1 only
C13_Witness ==
    /\ query.pc = "done"
    /\ query.kind = "nodes"
    /\ query.at = 2
    /\ query.body.nodes = {"n1"}
    /\ \E i \in 1..Len(arrived) :
          "node" \in DOMAIN arrived[i] /\ arrived[i].node = ""
    /\ Count = 1

\* classes a finished relay call falls in, read off its status and message
RelayClasses(r) ==
    LET st == relay[r].status
        b == relay[r].body
        msg == IF "message" \in DOMAIN b THEN b.message ELSE ""
        ok == "success" \in DOMAIN b /\ b.success
        failed == "success" \in DOMAIN b /\ ~b.success
    IN  {c \in {"Success", "NodeUnknown", "NoAddress", "Timeout",
                "Unreachable", "RemoteFailure", "RelayError"} :
            CASE c = "Success" -> ok /\ st = 200 /\ "state" \in DOMAIN b
              [] c = "NodeUnknown" ->
                    failed /\ st = 404 /\ msg = "Node not connected"
              [] c = "NoAddress" ->
                    failed /\ st = 400 /\ msg = "No IP address for node"
              [] c = "Timeout" ->
                    failed /\ st = 408 /\ msg = "Timeout connecting to"
              [] c = "Unreachable" ->
                    failed /\ st = 503 /\ msg = "Cannot connect to"
              [] c = "RemoteFailure" ->
                    failed /\ msg = "Node responded with status"
              [] OTHER ->
                    failed /\ st = 500
                        /\ msg \in {"Error: ChunkedEncodingError",
                                    "Error: JSONDecodeError",
                                    "Error: AttributeError"}}

\* text of the exception a fault of the exchange raises
UnderlyingText(event) ==
    CASE event = "chunked_encoding" -> "ChunkedEncodingError"
      [] event = "invalid_json" -> "JSONDecodeError"
      [] event = "not_an_object" -> "AttributeError"
      [] OTHER -> ""

C15_SingleAttempt ==
    \A r \in Relays :
        /\ relay[r].outbound <= 1
        /\ InFlight(r) => relay[r].outbound = 1
        /\ (relay[r].pc = "done" /\ relay[r].transport # "none")
              => relay[r].outbound = 1
        /\ (relay[r].pc = "done" /\ relay[r].transport = "none")
              => relay[r].outbound = 0

\* a call ended with a connect timeout after the full timeout and one request
C15_Witness ==
    \E r \in Relays :
        /\ relay[r].pc = "done"
        /\ relay[r].transport = "connect_timeout"
        /\ relay[r].status = 408
        /\ relay[r].outbound = 1
        /\ relay[r].timer = RELAY_TIMEOUT

\* the last LED command carried out for a request
LastCommand == issued[Len(issued)]

\* deadline of a timer: the time it was started plus its interval
Deadline(i) == timers[i].armed_at + timers[i].interval

\* C16: when the last command carried out for the LED is an `on` (or a
\* toggle that switched it on) that armed a timer with duration D and no
\* further command has been issued, the LED is lit at every time before
\* (time of arming + D) and off at every time after it.
C16_AutoOff ==
    (thread.pc = "idle" /\ issued # <<>> /\ LastCommand.state = "on"
        /\ LastCommand.ok /\ LastCommand.timer # 0)
    => /\ now < Deadline(LastCommand.timer) => is_lit[ThisAgent]
       /\ now > Deadline(LastCommand.timer) => ~is_lit[ThisAgent]

\* C17: when `on` is followed by a second `on` not later than the first
\* deadline, the first timer is no longer pending and the LED stays lit
\* until (time of the second `on` + D) and is off after it, also when the
\* second `on` comes at the instant the first timer fires.
C17_Rearm ==
    (thread.pc = "idle" /\ Len(issued) >= 2
        /\ LastCommand.state = "on" /\ LastCommand.ok
        /\ LastCommand.timer # 0
        /\ issued[Len(issued) - 1].state = "on"
        /\ issued[Len(issued) - 1].timer # 0
        /\ timers[LastCommand.timer].armed_at
              <= Deadline(issued[Len(issued) - 1].timer))
    => /\ timers[issued[Len(issued) - 1].timer].state # "waiting"
       /\ now < Deadline(LastCommand.timer) => is_lit[ThisAgent]
       /\ now > Deadline(LastCommand.timer) => ~is_lit[ThisAgent]

\* no thread is inside control_led
Quiescent ==
    /\ thread.pc = "idle"
    /\ \A i \in 1..Len(timers) : timers[i].state # "firing"

\* C18: whenever no call of control_led is in progress, a started timer that
\* has neither fired nor been cancelled exists exactly when the last-known
\* state of the LED is on, and led_timers has an entry exactly then.
C18_StateMatchesTimer ==
    Quiescent =>
        /\ (\E i \in 1..Len(timers) : timers[i].state = "waiting")
              <=> last_led_state[ThisAgent]
        /\ led_timers[ThisAgent] <=> last_led_state[ThisAgent]
        /\ (led_timer # 0) <=> last_led_state[ThisAgent]

\* C19: an `off` cancels the armed timer: after an `off` that follows an
\* `on`, the timer armed by that `on` is no longer pending, so it never
\* fires; a timer on which cancel() was called while it was armed never calls
\* its function; and a timer that calls its function does so at (time of its
\* own arming + D), not at the deadline of an earlier timer.
C19_OffCancels ==
    /\ \A i \in 1..Len(timers) :
          /\ timers[i].revoked => timers[i].state = "cancelled"
          /\ timers[i].state = "firing" => now = Deadline(i)
          /\ timers[i].state = "finished" => now >= Deadline(i)
    /\ \A k \in 2..Len(issued) :
          (issued[k].state = "off" /\ issued[k].ok
              /\ issued[k - 1].state = "on" /\ issued[k - 1].timer # 0)
          => timers[issued[k - 1].timer].state # "waiting"

\* actions control_device and control_led define for a device
DefinedActions(device) ==
    IF device \in {"led_1", "led_2"}
    THEN {"on", "off", "toggle", "blink", "pulse"}
    ELSE IF device = "pwm_1" THEN {"set"}
    ELSE IF device = "button_1" THEN {"read"}
    ELSE {}

\* C20: a request for an unknown device is answered 404, also without an
\* action; a request for a known device without an action is answered 400;
\* an action the device type does not define is answered with success false
\* and a message naming the reason; in each case the LED's output, its
\* last-known state and its timer are as before.
C20_RejectedRequests ==
    [][(thread.pc = "idle" /\ thread'.pc # "idle"
          /\ thread'.action \notin DefinedActions(thread'.device))
       => /\ thread'.pc = "ret"
          /\ UNCHANGED <<is_lit, last_led_state, led_timers, led_timer,
                         timers>>
          /\ IF thread'.device \notin
                   {"led_1", "led_2", "pwm_1", "button_1"}
             THEN thread'.status = 404
             ELSE IF thread'.action = ""
             THEN thread'.status = 400
             ELSE /\ thread'.body.success = FALSE
                  /\ thread'.body.message \in
                        {"Unknown action", "Action not supported for PWM",
                         "Buttons are read-only"}]_vars

\* `set` was sent to the LED while it was lit with its timer pending
C20_Witness ==
    /\ thread.pc = "ret"
    /\ thread.device = "led_1"
    /\ thread.action = "set"
    /\ thread.body.success = FALSE
    /\ is_lit[ThisAgent]
    /\ led_timer # 0
    /\ timers[led_timer].state = "waiting"

\* keys a PUT config body names
RequestKeys(data) == {data[i][1] : i \in 1..Len(data)}

\* a JSON number below 1
BelowOne(value) ==
    \/ value.t = "int" /\ value.n < 1
    \/ value.t = "float" /\ value.tenths < 10

\* C21: after any sequence of PUT config requests the heartbeat interval, the
\* sensor-poll interval and the auto-off duration are each an integer of at
\* least 1; a request that succeeded with a number below 1 for an interval
\* left that interval at 1; and every sleep of the heartbeat loop lasts at
\* least 1 time unit.
C21_IntervalsAtLeastOne ==
    /\ \A k \in IntervalKeys :
          system_config[k] \in Int /\ system_config[k] >= 1
    /\ beat.pc = "sleep"
          => /\ beat.slept \in Int
             /\ beat.slept >= 1
             /\ beat.wake_at >= beat.slept
    /\ cfg_response.status = 200
          => \A i \in 1..Len(cfg_response.payload) :
                LET key == cfg_response.payload[i][1]
                    value == cfg_response.payload[i][2]
                IN  (key \in IntervalKeys /\ BelowOne(value))
                       => system_config[key] = 1

\* a request asked for a heartbeat interval of 0 and was answered 200 while
\* the heartbeat thread is in a sleep of 1 time unit
C21_Witness ==
    /\ cfg_response.status = 200
    /\ \E i \in 1..Len(cfg_response.payload) :
          cfg_response.payload[i] = <<"heartbeat_interval", JInt(0)>>
    /\ beat.pc = "sleep"
    /\ beat.slept = 1
    /\ now > 1

\* C22: a PUT config request never changes the set of configuration keys and
\* leaves every whitelisted tunable it does not name unchanged; a request
\* naming only keys outside the whitelist is answered 200 with success, no
\* updated key and the configuration as it was; and keys outside the
\* whitelist do not make a request fail whose whitelisted keys carry
\* integers.
C22_UnknownKeysIgnored ==
    [][(cfg_response = NoResponse /\ cfg_response' # NoResponse)
          => LET data == cfg_response'.payload
                 named == RequestKeys(data)
             IN  /\ DOMAIN system_config' = DOMAIN DefaultConfig
                 /\ \A k \in valid_keys \ named :
                       system_config'[k] = system_config[k]
                 /\ named \cap valid_keys = {}
                       => /\ cfg_response'.status = 200
                          /\ cfg_response'.body.success = TRUE
                          /\ cfg_response'.body.updated_keys = <<>>
                          /\ cfg_response'.body.config = system_config
                          /\ system_config' = system_config
                 /\ (\A i \in 1..Len(data) :
                        data[i][1] \in valid_keys => data[i][2].t = "int")
                       => /\ cfg_response'.status = 200
                          /\ cfg_response'.body.success = TRUE]_vars

\* a request naming a key outside the whitelist and the heartbeat interval was
\* answered 200; the auto-off duration an earlier request set is still there
C22_Witness ==
    /\ cfg_response.status = 200
    /\ cfg_response.payload[1][1] = "hostname"
    /\ Len(cfg_response.payload) = 2
    /\ cfg_response.payload[2] = <<"heartbeat_interval", JInt(2)>>
    /\ system_config.heartbeat_interval = 2
    /\ system_config.led_auto_off_time = 1
    /\ system_config.sensor_poll_interval = DefaultConfig.sensor_poll_interval

\* the patterns of the classifier, as the log format names them
FailoverMarker(line) == Contains(line, <<"FAILOVER", "DETECTED">>)

StatusWord(line) ==
    Contains(Lower(line), <<"online">>) \/ Contains(Lower(line), <<"offline">>)

NetworkPhrase(line) ==
    \/ Contains(line, <<"Apple", "network", "found">>)
    \/ Contains(line, <<"No", "Apple", "networks", "found">>)

\* highest-precedence category a line matches; an AP status phrase is the
\* name of the AP together with a status word
Category(line) ==
    IF FailoverMarker(line) THEN "failover"
    ELSE IF Contains(line, <<"Primary", "AP">>) /\ StatusWord(line)
    THEN "primary"
    ELSE IF Contains(line, <<"Backup", "AP">>) /\ StatusWord(line)
    THEN "backup"
    ELSE IF NetworkPhrase(line) THEN "network"
    ELSE "unknown"

KindsOf(category) ==
    CASE category = "failover" -> {"failover"}
      [] category = "primary" -> {"primary_ap_online", "primary_ap_offline"}
      [] category = "backup" -> {"backup_ap_online", "backup_ap_offline"}
      [] category = "network" ->
            {"apple_network_detected", "apple_network_lost"}
      [] OTHER -> {"unknown"}

\* C23: for every line processed the kind of its record is a kind of the
\* highest-precedence category the line matches (failover marker, then
\* primary-AP status phrase, then backup-AP status phrase, then
\* network-presence phrase, else unknown), and a line with the failover
\* marker has kind failover with failover_detected true.
C23_Precedence ==
    \A i \in 1..Len(records) :
        LET ev == records[i]
        IN  /\ ev.event_type \in KindsOf(Category(ev.details))
            /\ FailoverMarker(ev.details)
                  => ev.event_type = "failover" /\ ev.failover_detected

\* records of the lines processed that have a kind, as CSV rows, in order
RECURSIVE KnownRows(_)
KnownRows(evs) ==
    IF evs = <<>> THEN <<>>
    ELSE IF Head(evs).event_type = "unknown" THEN KnownRows(Tail(evs))
    ELSE <<CsvRow(Head(evs))>> \o KnownRows(Tail(evs))

\* C24: the record of a line has kind unknown exactly when the line matches
\* none of the patterns; the events log holds exactly the rows of the records
\* whose kind is not unknown, one per line, in the order the lines were
\* processed; and the raw log holds every line processed.
C24_UnknownOnlyRaw ==
    /\ \A i \in 1..Len(records) :
          records[i].event_type = "unknown"
             <=> Category(records[i].details) = "unknown"
    /\ events_log = KnownRows(records)
    /\ Len(raw_log) = Len(records)
    /\ \A i \in 1..Len(records) : raw_log[i][2] = records[i].details

\* the line says that the named AP has the status
Reports(line, ap, status) == Contains(Lower(line), <<ap, "AP", status>>)

\* C25: the record of a line without failover marker that reports the primary
\* AP offline (and not also online) has kind primary_ap_offline and primary
\* status offline, and symmetrically for online, whatever else the line
\* holds; the same for the backup AP on lines that do not name the primary
\* AP.
C25_StatusAsReported ==
    \A i \in 1..Len(records) :
        LET ev == records[i]
            line == ev.details
        IN  ~FailoverMarker(line) =>
              /\ (Reports(line, "Primary", "offline")
                     /\ ~Reports(line, "Primary", "online"))
                    => /\ ev.event_type = "primary_ap_offline"
                       /\ ev.primary_ap_status = "offline"
              /\ (Reports(line, "Primary", "online")
                     /\ ~Reports(line, "Primary", "offline"))
                    => /\ ev.event_type = "primary_ap_online"
                       /\ ev.primary_ap_status = "online"
              /\ (~Contains(line, <<"Primary", "AP">>)
                     /\ Reports(line, "Backup", "offline")
                     /\ ~Reports(line, "Backup", "online"))
                    => /\ ev.event_type = "backup_ap_offline"
                       /\ ev.backup_ap_status = "offline"
              /\ (~Contains(line, <<"Primary", "AP">>)
                     /\ Reports(line, "Backup", "online")
                     /\ ~Reports(line, "Backup", "offline"))
                    => /\ ev.event_type = "backup_ap_online"
                       /\ ev.backup_ap_status = "online"

\* C26: the record of every line that holds "Signal: <n>dBm" has signal
\* strength n whatever its kind; the record of a line with "BSSID:" has the
\* text after it as hardware identifier; a record whose extraction failed
\* has signal strength 0, and every record with a kind has its row in the
\* events log.
C26_FieldsWhateverKind ==
    /\ \A i \in 1..Len(records) :
          LET ev == records[i]
              line == ev.details
          IN  /\ \A w \in DOMAIN NumeralValue :
                    Contains(line, <<"Signal:", w, "dBm">>)
                       => ev.signal_strength = NumeralValue[w]
              /\ ev.signal_strength # 0
                    => \E w \in DOMAIN NumeralValue :
                          /\ Contains(line, <<"Signal:", w, "dBm">>)
                          /\ ev.signal_strength = NumeralValue[w]
              /\ Contains(line, <<"BSSID:", "AA:BB:CC:DD:EE:FF">>)
                    => /\ ev.active_ap_mac # <<>>
                       /\ Head(ev.active_ap_mac) = "AA:BB:CC:DD:EE:FF"
    /\ events_log = KnownRows(records)

\* the fields of a record the classifier fills in
Judgement(ev) ==
    <<ev.event_type, ev.primary_ap_status, ev.backup_ap_status,
      ev.signal_strength, ev.active_ap_mac, ev.failover_detected>>

FlagAndMessage(body) == "success" \in DOMAIN body /\ "message" \in DOMAIN body

\* C28: every response of the heartbeat endpoint and every response of the
\* relay endpoint carries a success flag and a message, on the success path
\* and on every failure path.
C28_FlagAndMessage ==
    /\ hb_response # NoResponse => FlagAndMessage(hb_response.body)
    /\ \A r \in Relays : relay[r].pc = "done" => FlagAndMessage(relay[r].body)

\* C29: in every response of /api/status the node count equals the number of
\* entries of the registry snapshot of the same response, and in every
\* response of /api/nodes the identity list equals the key set of the
\* descriptor map of the same response, also when heartbeats are ingested
\* while the request is served.
C29_CountMatchesSnapshot ==
    query.pc = "done" =>
        /\ query.kind = "status"
              => query.body.client_count =
                    Cardinality(DOMAIN query.body.connected_clients)
        /\ query.kind = "nodes"
              => query.body.nodes = DOMAIN query.body.details

\* C30: while a relay call waits for its node, a heartbeat of every identity
\* can be ingested; the heartbeats ingested since the call looked its node up
\* are in the registry, visible to lookup and to list_nodes with the fields
\* they pushed; and the call still holds the address the registry had for its
\* node when it looked it up, whatever the registry holds now.
C30_RelayDoesNotBlock ==
    /\ ((\E r \in Relays : InFlight(r)) /\ Len(arrived) < MaxHeartbeats)
          => \A n \in Identities :
                ENABLED ReceiveHeartbeat(HeartbeatData(n, "t1"))
    /\ \A r \in Relays :
          InFlight(r) =>
              /\ \A k \in (relay[r].at + 1)..Len(arrived) :
                    LET n == IdentityOf(arrived[k])
                        hs == ArrivalsFor(n, Len(arrived))
                    IN  n # None
                          => /\ n \in NodeList(connected_clients)
                             /\ PreCheck(connected_clients, n) # "NodeUnknown"
                             /\ \A f \in StoredFields :
                                   connected_clients[n][f] =
                                      Pushed(hs[Len(hs)], f)
              /\ LET seen == ArrivalsFor(relay[r].node_name, relay[r].at)
                 IN  /\ seen # <<>>
                     /\ relay[r].node_ip = Pushed(seen[Len(seen)], "ip")

\* a relay call to n1 is waiting for the node, and a heartbeat of n1 ingested
\* after the lookup has replaced the address in the registry
C30_Witness ==
    \E r \in Relays :
        /\ InFlight(r)
        /\ relay[r].node_name = "n1"
        /\ Len(arrived) > relay[r].at
        /\ IdentityOf(arrived[Len(arrived)]) = "n1"
        /\ connected_clients["n1"].ip # relay[r].node_ip
        /\ relay[r].node_ip = NODE_IP["n1"]

\* C37: a PUT config request answered 400 leaves the configuration as it was
\* before the request, the keys the request names before the rejected one
\* included.
C37_RejectedLeavesConfig ==
    [][(cfg_response = NoResponse /\ cfg_response'.status = 400)
          => system_config' = system_config]_vars

\* the entries of the records with the kind failover, in order, as the
\* failover-only trace would hold them
FailoverEntries(evs) ==
    SelectSeq(evs, LAMBDA ev : ev.event_type = "failover")

\* C40: in every event record failover_detected is true exactly when the kind
\* is failover, primary_ap_status differs from unknown exactly when the kind
\* is primary_ap_online or primary_ap_offline, backup_ap_status likewise for
\* the backup kinds, and the failover-only trace holds one entry for each
\* record of kind failover and no other entry.
C40_RecordFieldsFollowKind ==
    /\ \A i \in 1..Len(records) :
          LET ev == records[i] IN
          /\ ev.failover_detected = (ev.event_type = "failover")
          /\ (ev.primary_ap_status # "unknown")
                = (ev.event_type \in {"primary_ap_online", "primary_ap_offline"})
          /\ (ev.backup_ap_status # "unknown")
                = (ev.event_type \in {"backup_ap_online", "backup_ap_offline"})
    /\ Len(failover_log) = Len(FailoverEntries(records))
    /\ \A j \in 1..Len(failover_log) :
          failover_log[j] = <<FailoverEntries(records)[j].timestamp,
                              FailoverEntries(records)[j].details>>

\* a failover line and a Primary AP line without a status word have both been
\* processed, the failover trace holding the one entry
C40_Witness ==
    /\ Len(records) = 2
    /\ records[1].event_type = "failover"
    /\ records[1].failover_detected
    /\ Contains(records[2].details, <<"Primary", "AP">>)
    /\ records[2].event_type = "unknown"
    /\ records[2].primary_ap_status = "unknown"
    /\ Len(failover_log) = 1

\* timers of the primary LED that are started, not cancelled and not fired
LiveTimers == {i \in 1..Len(timers) : timers[i].state = "waiting"}

\* C35: whenever the request thread is not between the statements of
\* control_led, at most one started, uncancelled, unfired auto-off timer
\* exists for the device and it is the one recorded in led_timers, also when
\* a request runs concurrently with a firing timer.
C35_OneLiveTimer ==
    thread.pc # "run"
       => /\ Cardinality(LiveTimers) <= 1
          /\ LiveTimers \subseteq {led_timer}

\* C36: whenever control_led returns success = false for an on, off or toggle
\* action, the output of the device, its last-known state and its entry in
\* led_timers are the same as when the call began.
C36_FailureChangesNothing ==
    (thread.pc = "ret" /\ thread.path # "" /\ ~thread.body.success)
       => DeviceState = thread.before

\* the lines monitor_loop has handed to process_line and process_line has
\* not returned from at once, in order
Handed == [i \in 1..Len(raw_log) |-> raw_log[i][2]]

\* the complete, newline-terminated lines of the text the port has sent so
\* far, stripped, without the empty ones; and the fragment after them
StreamLines ==
    SelectSeq(SplitLines(Decode(received)).lines, LAMBDA l : l # <<>>)

StreamFragment == SplitLines(Decode(received)).rest

\* C39: however the byte stream is split into chunks, the lines handed to
\* process_line are the complete non-empty lines of the stream, each once and
\* in stream order, and the buffer holds the fragment after the last newline.
C39_ChunkingInvisible ==
    /\ Handed = StreamLines
    /\ buffer = StreamFragment

\* C38: connected_clients and last_heartbeat have the same key set in every
\* state, the states between the statements of receive_heartbeat included.
C38_MapsAligned == DOMAIN connected_clients = DOMAIN last_heartbeat

\* the pass of the loop that has just ended was a failed one
FailedCycle(a) ==
    /\ loop[a].pc \in {"sleeping", "ended"}
    /\ loop[a].log \in FailureLevels

\* C31: after every failed cycle of the heartbeat loop a further push attempt
\* eventually follows; the loop does not end on a failure.
C31_FailedCycleRetried ==
    \A a \in Agents : FailedCycle(a) ~> (loop[a].pc = "posting")

\* the moves of the heartbeat thread in which a cycle has one push attempt
\* and the way from one attempt to the next leads through one sleep
CycleMoves ==
    {<<"start", "posting">>, <<"posting", "stored">>, <<"stored", "touched">>,
     <<"posting", "sleeping">>, <<"touched", "sleeping">>,
     <<"posting", "ended">>, <<"touched", "ended">>,
     <<"sleeping", "start">>}

\* C32: each heartbeat cycle makes one push attempt, whatever its outcome the
\* thread goes on to one sleep of the interval configured at that moment
\* (30 by default), and only the end of that sleep leads to the next attempt:
\* a failed push is not retried before it.
C32_OneAttemptOneSleep ==
    [][\A a \in Agents :
          loop'[a].pc # loop[a].pc
             => /\ <<loop[a].pc, loop'[a].pc>> \in CycleMoves
                /\ loop'[a].pc \in {"sleeping", "ended"}
                      => loop'[a].interval = IntervalOf(a)
                /\ loop'[a].pc \notin {"sleeping", "ended"}
                      => loop'[a].interval = loop[a].interval]_vars

\* after a failed push and a sleep of the interval a PUT config has set,
\* agent n1 is in its next attempt, while agent n2 sleeps the default interval
\* after a failed push of its own
C32_Witness ==
    /\ loop[ThisAgent].pc = "posting"
    /\ loop[ThisAgent].log \in FailureLevels
    /\ loop[ThisAgent].interval = 2
    /\ \E a \in Agents \ {ThisAgent} :
          /\ loop[a].pc = "sleeping"
          /\ loop[a].log \in FailureLevels
          /\ loop[a].interval = DefaultConfig.heartbeat_interval

\* the registry holds the identity with the address and the capability list
\* the agent pushes, and a relay to it passes the NodeUnknown check
RegisteredAsPushed(a) ==
    /\ a \in DOMAIN connected_clients
    /\ connected_clients[a].ip = NODE_IP[a]
    /\ connected_clients[a].devices = DeviceNames[a]
    /\ PreCheck(connected_clients, a) # "NodeUnknown"

\* C34: with a network that eventually delivers and a running coordinator,
\* every agent is at some time in the registry with the address and the
\* capability list of its own heartbeat, and from then on every relay to its
\* identity passes the NodeUnknown check.
C34_EventuallyRegistered ==
    \A a \in Agents : <>[]RegisteredAsPushed(a)

\* requests.post of the agent's heartbeat has been called and has not returned
PushInFlight(a) == loop[a].pc \in {"posting", "stored", "touched"}

\* C33: while a heartbeat push of the agent is in flight a device action
\* request is accepted, every statement of an accepted one can be executed and
\* its response returned; while a device action is executing or returning,
\* the heartbeat thread, unless it has ended, can take its next step.
C33_LoopAndRequestsIndependent ==
    /\ PushInFlight(ThisAgent)
          => /\ (thread.pc = "idle" /\ Len(issued) < MaxCommands)
                   => \A req \in ServeRequests :
                         ENABLED ControlDevice(req, FALSE)
             /\ thread.pc = "run" => ENABLED DeviceStep
             /\ thread.pc = "ret" => ENABLED ControlReturn
    /\ (thread.pc \in {"run", "ret"} /\ loop[ThisAgent].pc # "ended")
          => ENABLED LoopStep(ThisAgent)

\* the first push of the agent is still in flight, one device action has been
\* carried out and answered and the next one is executing
C33_Witness ==
    /\ loop[ThisAgent].pc = "posting"
    /\ loop[ThisAgent].log = ""
    /\ Len(issued) >= 1
    /\ issued[1].ok
    /\ thread.pc = "run"

====
